---- MODULE Spec2Model ----
(***************************************************************************)
(* Model of the wrestling bracket generator: the grouping engine           *)
(* BracketMatcherV3 (src/bracket_matcher.py), the legacy round-robin mat   *)
(* assignment (src/matcher.py) and the data model (src/models.py).         *)
(*                                                                         *)
(* A Wrestler is a record [id, grade, weight, school]; first_name,         *)
(* last_name and rank are never read by BracketMatcherV3 and are left out. *)
(* Weights are whole pounds.  Isolation scores are kept multiplied by 4 so *)
(* that the halves produced by statistics.median and by the factor 0.5     *)
(* stay integers; only their order is ever used by the engine.             *)
(***************************************************************************)
EXTENDS Integers, Sequences, FiniteSets, TLC

VARIABLES
    wrestlers,        \* self.wrestlers: the ordered roster
    bracket_size,     \* self.bracket_size: the target size
    pc,               \* position of match_all / of the pure-function drivers
    available,        \* match_all's local pool
    brackets,         \* match_all's local list of Bracket records
    bracket_id,       \* next bracket id
    outliers,         \* Phase 0: the sorted outliers not yet visited
    p5,               \* Phase 5: index into the weight list [10, 25, 44]
    queue,            \* Phase 8: list(available) not yet visited
    still_unmatched,  \* Phase 8: still_unmatched
    unmatched,        \* self.unmatched
    num_mats,         \* the num_mats argument (0 until it is read)
    last,             \* what the last step did (bookkeeping, never read
                      \* by the steps)
    frame,            \* a helper called on its own: its arguments and locals
    ret,              \* a helper called on its own: its return value
    event,            \* the stored event document (the data column of events)
    response,         \* what the last request handler answered
    edits             \* the number of manual edit requests handled

vars == <<wrestlers, bracket_size, pc, available, brackets, bracket_id,
          outliers, p5, queue, still_unmatched, unmatched, num_mats, last,
          frame, ret, event, response, edits>>

\* the variables of the web application
app_vars == <<event, response, edits>>

---------------------------------------------------------------------------
(* Bounds of the model *)

MaxRoster == 3
MaxMats == 4
MaxMatBrackets == 12

(* Program constants *)

MAX_WEIGHT_STRICT == 10
MAX_WEIGHT_RELAXED == 44
MAX_GRADE == 2
MAX_GRADE_EMERGENCY == 3
NoMat == 0
None == <<>>
NoFrame == [fn |-> "none"]
NoEvent == [id |-> "none"]

---------------------------------------------------------------------------
(* Helpers for Python's list and number operations *)

Abs(x) == IF x < 0 THEN -x ELSE x

Max(S) == CHOOSE x \in S : \A y \in S : y <= x

Min(S) == CHOOSE x \in S : \A y \in S : x <= y

Range(s) == {s[i] : i \in DOMAIN s}

\* a removal that stops after the first member of the group
RemoveFirstOnly(list, group) == SelectSeq(list, LAMBDA w : group = <<>> \/ w # group[1])

\* a removal that removes nothing
RemoveNone(list, group) == list

\* list.remove(x) for every x of group: ids are unique, so the first equal
\* element is the only one.
RemoveAll(list, group) == SelectSeq(list, LAMBDA w : w \notin Range(group))

RemoveAt(list, i) == [k \in 1..(Len(list) - 1) |-> IF k < i THEN list[k] ELSE list[k + 1]]

\* sorted(list, key=..., reverse=True), keys[i] being the key of list[i]:
\* Python's sort is stable, also with reverse=True, so equal keys keep their
\* original relative order.
SortedDescending(list, keys) ==
    LET key == keys \o <<>>
        rank(i) == 1 + Cardinality({j \in DOMAIN list :
                        \/ key[j] > key[i]
                        \/ key[j] = key[i] /\ j < i})
    IN  [k \in DOMAIN list |-> list[CHOOSE i \in DOMAIN list : rank(i) = k]]

\* The scan "best = None; for x in ...: if admissible and score < best_score:
\* best = x" over a table of [ok, score] entries listed in scan order: the
\* index of the first entry of minimal score among the admissible ones, 0
\* when there is none.
FirstMin(table) ==
    LET ok == {i \in DOMAIN table : table[i].ok}
    IN  IF ok = {} THEN 0
        ELSE CHOOSE i \in ok : \A j \in ok :
                \/ table[i].score < table[j].score
                \/ table[i].score = table[j].score /\ i <= j

\* twice statistics.median(values): the middle value, or the mean of the two
\* middle values
KthSmallest(values, k) ==
    CHOOSE v \in Range(values) :
        /\ Cardinality({i \in DOMAIN values : values[i] < v}) < k
        /\ Cardinality({i \in DOMAIN values : values[i] <= v}) >= k

median2(values) ==
    LET n == Len(values)
    IN  IF n % 2 = 1
        THEN 2 * KthSmallest(values, (n + 1) \div 2)
        ELSE KthSmallest(values, n \div 2) + KthSmallest(values, n \div 2 + 1)

---------------------------------------------------------------------------
(* CompatibilityResult and BracketMatcherV3._analyze *)

analyze(ws) ==
    LET weights == {ws[i].weight : i \in DOMAIN ws}
        grades == {ws[i].grade : i \in DOMAIN ws}
        schools == {ws[i].school : i \in DOMAIN ws}
        count(s) == Cardinality({i \in DOMAIN ws : ws[i].school = s})
    IN  [weight_spread |-> Max(weights) - Min(weights),
         grade_spread |-> Max(grades) - Min(grades),
         max_same_school |-> Max({count(s) : s \in schools}),
         school_count |-> Cardinality(schools)]

violations(result) ==
    (IF result.weight_spread > 10 THEN <<"WEIGHT">> ELSE <<>>)
    \o (IF result.grade_spread > 2 THEN <<"GRADE">> ELSE <<>>)
    \o (IF result.max_same_school > 1 THEN <<"SCHOOL">> ELSE <<>>)

---------------------------------------------------------------------------
(* BracketMatcherV3._calculate_isolation, multiplied by 4 *)

\* a score whose grade peers are the wrestlers of the same grade only
calculate_isolation_same_grade(wrestler, pool, max_weight) ==
    LET grade_compatible == SelectSeq(pool, LAMBDA w :
            w.id # wrestler.id /\ w.grade = wrestler.grade)
        weight_compatible == SelectSeq(grade_compatible, LAMBDA w :
            Abs(w.weight - wrestler.weight) <= max_weight)
        weights == [i \in DOMAIN grade_compatible |-> grade_compatible[i].weight]
    IN  IF grade_compatible = <<>>
        THEN 4 * 1000
        ELSE 4 * (Max({0, 10 - Len(weight_compatible)}) * 15)
             + Abs(2 * wrestler.weight - median2(weights))

calculate_isolation(wrestler, pool, max_weight) ==
    LET grade_compatible == SelectSeq(pool, LAMBDA w :
            w.id # wrestler.id /\ Abs(w.grade - wrestler.grade) <= 1)
        weight_compatible == SelectSeq(grade_compatible, LAMBDA w :
            Abs(w.weight - wrestler.weight) <= max_weight)
        same_grade == SelectSeq(pool, LAMBDA w :
            w.grade = wrestler.grade /\ w.id # wrestler.id)
        weights == [i \in DOMAIN same_grade |-> same_grade[i].weight]
        weight_deviation2 == IF same_grade # <<>>
                             THEN Abs(2 * wrestler.weight - median2(weights))
                             ELSE 2 * 50
        compat_factor == Max({0, 10 - Len(weight_compatible)}) * 15
    IN  IF grade_compatible = <<>>
        THEN 4 * 1000
        ELSE 4 * compat_factor + weight_deviation2

---------------------------------------------------------------------------
(* BracketMatcherV3._find_partners *)

\* an admission test that forgets the school cap
partner_admissible_any_school(result, max_weight, max_grade, max_same_school) ==
    /\ result.weight_spread <= max_weight
    /\ result.grade_spread <= max_grade

\* the test of lines 122-127 on result = _analyze(group + [c])
partner_admissible(result, max_weight, max_grade, max_same_school) ==
    /\ result.weight_spread <= max_weight
    /\ result.grade_spread <= max_grade
    /\ result.max_same_school <= max_same_school

\* the score of lines 129-137; used_schools counts the schools of group
\* a score whose school term is too small to dominate
partner_score_flat(result, c, group) ==
    (IF c.school \in {group[i].school : i \in DOMAIN group} THEN 10 ELSE -1)
    + result.grade_spread * 100
    + result.weight_spread * 1

partner_score(result, c, group) ==
    (IF c.school \in {group[i].school : i \in DOMAIN group} THEN 1000 ELSE -100)
    + result.grade_spread * 100
    + result.weight_spread * 1

partner_entry(result, c, group, max_weight, max_grade, max_same_school) ==
    [ok |-> partner_admissible(result, max_weight, max_grade, max_same_school),
     score |-> partner_score(result, c, group)]

\* the scan of lines 115-141: the index of best in candidates, 0 for None
best_candidate(group, candidates, max_weight, max_grade, max_same_school) ==
    FirstMin([i \in DOMAIN candidates |->
                 partner_entry(analyze(Append(group, candidates[i])), candidates[i],
                               group, max_weight, max_grade, max_same_school)])

RECURSIVE grow_group(_, _, _, _, _, _)
\* lines 143-148 for the candidate at index best
grow_with(best, group, candidates, target_size, max_weight, max_grade, max_same_school) ==
    IF best = 0
    THEN group
    ELSE grow_group(Append(group, candidates[best]), RemoveAt(candidates, best),
                    target_size, max_weight, max_grade, max_same_school)

\* the while loop of lines 114-148
grow_group(group, candidates, target_size, max_weight, max_grade, max_same_school) ==
    IF Len(group) >= target_size \/ candidates = <<>>
    THEN group
    ELSE grow_with(best_candidate(group, candidates, max_weight, max_grade,
                                  max_same_school),
                   group, candidates, target_size, max_weight, max_grade,
                   max_same_school)

\* a return that hands out whatever was built
group_or_none_partial(group, target_size) == group

\* a size test that is off by one
group_or_none_longer(group, target_size) ==
    IF Len(group) > target_size THEN group ELSE None

\* line 150
group_or_none(group, target_size) ==
    IF Len(group) >= target_size THEN group ELSE None

find_partners(seed, pool, target_size, max_weight, max_grade, max_same_school) ==
    group_or_none(grow_group(<<seed>>, SelectSeq(pool, LAMBDA w : w.id # seed.id),
                             target_size, max_weight, max_grade, max_same_school),
                  target_size)

---------------------------------------------------------------------------
(* BracketMatcherV3._find_best_bracket_isolated *)

\* lines 171-180 on the groups built from the seeds in order: the first that
\* is a group of target_size
first_full_group(groups, target_size) ==
    LET hits == {k \in DOMAIN groups :
                    groups[k] # None /\ Len(groups[k]) = target_size}
    IN  IF hits = {} THEN None ELSE groups[Min(hits)]

\* seeds left in pool order
sorted_by_isolation_pool_order(list, pool, max_weight) == list

\* lines 165-169
sorted_by_isolation(list, pool, max_weight) ==
    SortedDescending(list, [i \in DOMAIN list |->
                               calculate_isolation(list[i], pool, max_weight)])

\* lines 171-175 for every seed of sorted_pool
groups_from_seeds(sorted_pool, pool, target_size, max_weight, max_grade, max_same_school) ==
    [k \in DOMAIN sorted_pool |->
        find_partners(sorted_pool[k], pool, target_size,
                      max_weight, max_grade, max_same_school)]

find_best_bracket_isolated(pool, target_size, max_weight, max_grade, max_same_school) ==
    first_full_group(
        groups_from_seeds(sorted_by_isolation(pool, pool, max_weight), pool,
                          target_size, max_weight, max_grade, max_same_school),
        target_size)

---------------------------------------------------------------------------
(* BracketMatcherV3.match_all, Phases 0-6 *)

small_target == Max({3, bracket_size - 1})

\* Bracket(id=bracket_id, wrestlers=group, relaxations=result.violations)
new_bracket(group) ==
    [id |-> bracket_id,
     wrestlers |-> group,
     mat_number |-> NoMat,
     relaxations |-> violations(analyze(group))]

\* brackets.append(Bracket(...)); bracket_id += 1;
\* for w in group: available.remove(w)
CreateBracket(group) ==
    /\ brackets' = Append(brackets, new_bracket(group))
    /\ bracket_id' = bracket_id + 1
    /\ available' = RemoveAll(available, group)
    /\ last' = "create"

\* lines 191-200: the wrestlers with fewer than target - 1 strict matches
is_outlier(w, pool) ==
    Len(SelectSeq(pool, LAMBDA p :
            /\ p.id # w.id
            /\ Abs(p.grade - w.grade) <= MAX_GRADE
            /\ Abs(p.weight - w.weight) <= MAX_WEIGHT_STRICT)) < bracket_size - 1

\* lines 203-208: outliers.sort(key=isolation at 44 lbs, reverse=True)
sorted_outliers(pool) ==
    sorted_by_isolation(SelectSeq(pool, LAMBDA w : is_outlier(w, pool)), pool,
                        MAX_WEIGHT_RELAXED)

\* where the run goes once the outlier list is used up
after_outliers(rest) == IF rest # <<>> THEN "phase0" ELSE "phase1"

\* lines 183-208: the locals of match_all and the outlier list
MatchAllBegin ==
    /\ pc = "start"
    /\ available' = wrestlers
    /\ brackets' = <<>>
    /\ bracket_id' = 0
    /\ outliers' = sorted_outliers(wrestlers)
    /\ pc' = after_outliers(outliers')
    /\ last' = "begin"
    /\ UNCHANGED <<app_vars, frame, ret, wrestlers, bracket_size, p5, queue, still_unmatched,
                   unmatched, num_mats>>

\* the pairs tried from the widest to the narrowest
Phase0TolerancesWidestFirst ==
    <<[w |-> MAX_WEIGHT_RELAXED, g |-> MAX_GRADE_EMERGENCY],
      [w |-> MAX_WEIGHT_RELAXED, g |-> MAX_GRADE],
      [w |-> 25, g |-> MAX_GRADE_EMERGENCY], [w |-> 25, g |-> MAX_GRADE]>>

\* lines 215-216: the (max_weight, max_grade) pairs in the order tried
Phase0Tolerances ==
    <<[w |-> 25, g |-> MAX_GRADE], [w |-> 25, g |-> MAX_GRADE_EMERGENCY],
      [w |-> MAX_WEIGHT_RELAXED, g |-> MAX_GRADE],
      [w |-> MAX_WEIGHT_RELAXED, g |-> MAX_GRADE_EMERGENCY]>>

\* "if group: ... break": the first group that is not None
first_group(groups) ==
    LET hits == {k \in DOMAIN groups : groups[k] # None}
    IN  IF hits = {} THEN None ELSE groups[Min(hits)]

\* lines 215-237 for one seed
phase0_group(seed, pool) ==
    first_group([k \in DOMAIN Phase0Tolerances |->
                    find_partners(seed, pool, bracket_size,
                                  Phase0Tolerances[k].w, Phase0Tolerances[k].g, 2)])

\* line 211: "if seed not in available or len(available) < target: continue"
phase0_attempt(seed, pool) ==
    IF seed \notin Range(pool) \/ Len(pool) < bracket_size
    THEN None
    ELSE phase0_group(seed, pool)

Phase0Commit(group) ==
    IF group # None
    THEN CreateBracket(group)
    ELSE UNCHANGED <<brackets, bracket_id, available>> /\ last' = "skip"

\* one iteration of "for seed in outliers" (lines 210-237)
Phase0Step ==
    /\ pc = "phase0"
    /\ outliers # <<>>
    /\ Phase0Commit(phase0_attempt(Head(outliers), available))
    /\ outliers' = Tail(outliers)
    /\ pc' = after_outliers(outliers')
    /\ UNCHANGED <<app_vars, frame, ret, wrestlers, bracket_size, p5, queue, still_unmatched,
                   unmatched, num_mats>>

\* "while len(pool) >= size: group = self._find_best_bracket_isolated(...)":
\* the group of one iteration, None when the loop is left
loop_group(pool, size, max_weight, max_grade) ==
    IF Len(pool) >= size
    THEN find_best_bracket_isolated(pool, size, max_weight, max_grade, 2)
    ELSE None

LoopCommit(group, here, next) ==
    IF group # None
    THEN CreateBracket(group) /\ pc' = here
    ELSE UNCHANGED <<brackets, bracket_id, available>> /\ pc' = next /\ last' = "leave"

\* one iteration of a while loop of Phases 1-4 and 6: a bracket is created
\* and the loop goes on, or the loop is left for `next`
PhaseLoop(here, size, max_weight, max_grade, next) ==
    /\ pc = here
    /\ LoopCommit(loop_group(available, size, max_weight, max_grade), here, next)

\* lines 239-260
Phase1Step ==
    /\ PhaseLoop("phase1", bracket_size, MAX_WEIGHT_STRICT, MAX_GRADE, "phase2")
    /\ UNCHANGED <<app_vars, frame, ret, wrestlers, bracket_size, outliers, p5, queue,
                   still_unmatched, unmatched, num_mats>>

\* lines 261-281
Phase2Step ==
    /\ PhaseLoop("phase2", bracket_size, 25, MAX_GRADE, "phase3")
    /\ UNCHANGED <<app_vars, frame, ret, wrestlers, bracket_size, outliers, p5, queue,
                   still_unmatched, unmatched, num_mats>>

\* lines 283-303
Phase3Step ==
    /\ PhaseLoop("phase3", bracket_size, MAX_WEIGHT_RELAXED, MAX_GRADE, "phase4")
    /\ UNCHANGED <<app_vars, frame, ret, wrestlers, bracket_size, outliers, p5, queue,
                   still_unmatched, unmatched, num_mats>>

\* Phases 5 and 6 entered whatever the target is
after_phase4_always_reduced == "phase5"

\* line 328: "if target > 3" selects Phases 5 and 6
after_phase4 == IF bracket_size > 3 THEN "phase5" ELSE "phase7"

\* lines 305-325
Phase4Step ==
    /\ PhaseLoop("phase4", bracket_size, MAX_WEIGHT_RELAXED, MAX_GRADE_EMERGENCY,
                 after_phase4)
    /\ UNCHANGED <<app_vars, frame, ret, wrestlers, bracket_size, outliers, p5, queue,
                   still_unmatched, unmatched, num_mats>>

\* line 329: for max_weight in [MAX_WEIGHT_STRICT, 25.0, MAX_WEIGHT_RELAXED]
Phase5Weights == <<MAX_WEIGHT_STRICT, 25, MAX_WEIGHT_RELAXED>>

\* leaving the inner while loop moves to the next weight, and after the last
\* weight to Phase 6
Phase5Commit(group) ==
    IF group # None
    THEN CreateBracket(group) /\ UNCHANGED <<p5, pc>>
    ELSE /\ UNCHANGED <<brackets, bracket_id, available>>
         /\ last' = "leave"
         /\ IF p5 < Len(Phase5Weights)
            THEN p5' = p5 + 1 /\ pc' = "phase5"
            ELSE p5' = p5 /\ pc' = "phase6"

\* lines 329-349: one iteration of the inner while loop
Phase5Step ==
    /\ pc = "phase5"
    /\ Phase5Commit(loop_group(available, small_target, Phase5Weights[p5], MAX_GRADE))
    /\ UNCHANGED <<app_vars, frame, ret, wrestlers, bracket_size, outliers, queue,
                   still_unmatched, unmatched, num_mats>>

\* lines 351-371
Phase6Step ==
    /\ PhaseLoop("phase6", small_target, MAX_WEIGHT_RELAXED, MAX_GRADE_EMERGENCY,
                 "phase7")
    /\ UNCHANGED <<app_vars, frame, ret, wrestlers, bracket_size, outliers, p5, queue,
                   still_unmatched, unmatched, num_mats>>

---------------------------------------------------------------------------
(* Phase 7: straggler absorption *)

\* an emergency test without the weight ceiling
emergency_admissible_any_weight(result) ==
    /\ result.grade_spread <= MAX_GRADE_EMERGENCY
    /\ result.max_same_school <= 2

\* an emergency test without the grade bound
emergency_admissible_any_grade(result) ==
    /\ result.max_same_school <= 2
    /\ result.weight_spread <= MAX_WEIGHT_RELAXED

\* the test shared by Phase 7 (lines 389-395) and Phase 8 (lines 431,
\* 457-462, 470) on an analysed group
emergency_admissible(result) ==
    /\ result.grade_spread <= MAX_GRADE_EMERGENCY
    /\ result.max_same_school <= 2
    /\ result.weight_spread <= MAX_WEIGHT_RELAXED

\* absorption without the room test of line 384
absorb_entry_no_room(b, result) ==
    [ok |-> emergency_admissible(result),
     score |-> (result.max_same_school - 1) * 1000
               + result.grade_spread * 100
               + result.weight_spread * 1
               + Len(b.wrestlers) * 10]

\* absorption with a room test that is off by one
absorb_entry_room_off_by_one(b, result) ==
    [ok |-> Len(b.wrestlers) < bracket_size - 1 /\ emergency_admissible(result),
     score |-> (result.max_same_school - 1) * 1000
               + result.grade_spread * 100
               + result.weight_spread * 1
               + Len(b.wrestlers) * 10]

\* lines 383-402 for bracket b and result = _analyze(b.wrestlers + [wrestler])
absorb_entry(b, result) ==
    [ok |-> Len(b.wrestlers) < bracket_size /\ emergency_admissible(result),
     score |-> (result.max_same_school - 1) * 1000
               + result.grade_spread * 100
               + result.weight_spread * 1
               + Len(b.wrestlers) * 10]

\* the position in the scan "for wrestler in available: for b in brackets"
\* of the pair (wrestler wi, bracket bi), and back
pair_wrestler(n, bs) == ((n - 1) \div Len(bs)) + 1
pair_bracket(n, bs) == ((n - 1) % Len(bs)) + 1

\* lines 381-407: the entries of all pairs in scan order
absorb_table(pool, bs) ==
    [n \in 1..(Len(pool) * Len(bs)) |->
        absorb_entry(bs[pair_bracket(n, bs)],
                     analyze(Append(bs[pair_bracket(n, bs)].wrestlers,
                                    pool[pair_wrestler(n, bs)])))]

\* an append that leaves the stored flags as they were
with_member_stale(b, w) == [b EXCEPT !.wrestlers = Append(@, w)]

\* b.wrestlers.append(w); b.relaxations = self._analyze(b.wrestlers).violations
with_member(b, w) ==
    [b EXCEPT !.wrestlers = Append(b.wrestlers, w),
              !.relaxations = violations(analyze(Append(b.wrestlers, w)))]

\* lines 419-422: what leaving Phase 7 with the pool `rest` sets up
EnterPhase8(rest) ==
    /\ queue' = rest
    /\ still_unmatched' = <<>>
    /\ pc' = IF rest # <<>> THEN "phase8" ELSE "finish"

\* lines 409-414 for the best pair at scan position n (0: none)
Phase7Commit(n) ==
    IF n # 0
    THEN /\ brackets' = [brackets EXCEPT ![pair_bracket(n, brackets)] =
                            with_member(@, available[pair_wrestler(n, brackets)])]
         /\ available' = RemoveAt(available, pair_wrestler(n, brackets))
         /\ last' = "absorb"
         /\ UNCHANGED <<pc, queue, still_unmatched>>
    ELSE /\ UNCHANGED <<brackets, available>>
         /\ last' = "leave"
         /\ EnterPhase8(available)

\* one iteration of "while available" (lines 376-414)
Phase7Step ==
    /\ pc = "phase7"
    /\ Phase7Commit(FirstMin(absorb_table(available, brackets)))
    /\ UNCHANGED <<app_vars, frame, ret, wrestlers, bracket_size, bracket_id, outliers, p5,
                   unmatched, num_mats>>

---------------------------------------------------------------------------
(* Phase 8: redistribution *)

\* a direct attempt without the room test of line 427
direct_absorption_no_room(w, bs) ==
    LET ok == {i \in DOMAIN bs :
                  emergency_admissible(analyze(Append(bs[i].wrestlers, w)))}
    IN  IF ok = {} THEN 0 ELSE Min(ok)

\* lines 426-435: the first bracket with room that admits the wrestler,
\* 0 for none
direct_absorption(w, bs) ==
    LET ok == {i \in DOMAIN bs :
                  /\ Len(bs[i].wrestlers) < bracket_size
                  /\ emergency_admissible(analyze(Append(bs[i].wrestlers, w)))}
    IN  IF ok = {} THEN 0 ELSE Min(ok)

\* line 449: the size a bracket needs to be a swap source
SwapSourceSize == 4

\* lines 453-454: remaining + [unmatched_w], pull_w being b.wrestlers[k]
swap_source_group(b, k, w) == Append(RemoveAt(b.wrestlers, k), w)

\* a swap search that takes the first admissible triple
swap_entry_first_found(b, other_b, result, other_result) ==
    [ok |-> /\ emergency_admissible(result)
            /\ other_b.id # b.id
            /\ Len(other_b.wrestlers) < bracket_size
            /\ emergency_admissible(other_result),
     score |-> 0]

\* lines 457-471 for result = _analyze(new_bracket) and
\* other_result = _analyze(other_b.wrestlers + [pull_w])
swap_entry(b, other_b, result, other_result) ==
    [ok |-> /\ emergency_admissible(result)
            /\ other_b.id # b.id
            /\ Len(other_b.wrestlers) < bracket_size
            /\ emergency_admissible(other_result),
     score |-> result.weight_spread + other_result.weight_spread]

\* the scan "for b in brackets: for pull_w in b.wrestlers: for other_b in
\* brackets" laid out with a slot for each member index up to the longest
\* bracket: the bracket, member and destination of position n
longest(bs) == IF bs = <<>> THEN 0 ELSE Max({Len(bs[i].wrestlers) : i \in DOMAIN bs})
swap_source(n, bs) == ((n - 1) \div (longest(bs) * Len(bs))) + 1
swap_pulled(n, bs) == (((n - 1) \div Len(bs)) % longest(bs)) + 1
swap_dest(n, bs) == ((n - 1) % Len(bs)) + 1

\* lines 448-474: the entries of all triples in scan order; line 449 skips
\* the brackets of fewer than 4 wrestlers
swap_candidate(b, k, other_b, w) ==
    IF Len(b.wrestlers) < SwapSourceSize \/ k > Len(b.wrestlers)
    THEN [ok |-> FALSE, score |-> 0]
    ELSE swap_entry(b, other_b, analyze(swap_source_group(b, k, w)),
                    analyze(Append(other_b.wrestlers, b.wrestlers[k])))

swap_table(w, bs) ==
    [n \in 1..(Len(bs) * longest(bs) * Len(bs)) |->
        swap_candidate(bs[swap_source(n, bs)], swap_pulled(n, bs),
                       bs[swap_dest(n, bs)], w)]

\* lines 445-474: the scan position of best_swap, 0 for None
best_swap(w, bs) == FirstMin(swap_table(w, bs))

\* src_bracket.wrestlers.remove(pulled); src_bracket.wrestlers.append(newcomer)
swapped_source(b, k, w) ==
    [b EXCEPT !.wrestlers = swap_source_group(b, k, w),
              !.relaxations = violations(analyze(swap_source_group(b, k, w)))]

\* lines 477-482: the brackets after the swap at scan position n
apply_swap(n, w, bs) ==
    [bs EXCEPT ![swap_source(n, bs)] = swapped_source(@, swap_pulled(n, bs), w),
               ![swap_dest(n, bs)] =
                   with_member(@, bs[swap_source(n, bs)].wrestlers[swap_pulled(n, bs)])]

\* lines 423-484 for one unmatched wrestler, given the bracket found by the
\* direct attempt and the swap found by the search
Phase8Commit(unmatched_w, direct, swap) ==
    IF direct # 0
    THEN /\ brackets' = [brackets EXCEPT ![direct] = with_member(@, unmatched_w)]
         /\ still_unmatched' = still_unmatched
         /\ last' = "direct"
    ELSE IF swap # 0
    THEN /\ brackets' = apply_swap(swap, unmatched_w, brackets)
         /\ still_unmatched' = still_unmatched
         /\ last' = "swap"
    ELSE /\ brackets' = brackets
         /\ still_unmatched' = Append(still_unmatched, unmatched_w)
         /\ last' = "unmatched"

\* one iteration of "for unmatched_w in list(available)" (lines 422-484);
\* after the last one, line 486: available = still_unmatched
Phase8Step ==
    /\ pc = "phase8"
    /\ queue # <<>>
    /\ Phase8Commit(Head(queue), direct_absorption(Head(queue), brackets),
                    best_swap(Head(queue), brackets))
    /\ queue' = Tail(queue)
    /\ available' = IF queue' = <<>> THEN still_unmatched' ELSE available
    /\ pc' = IF queue' = <<>> THEN "finish" ELSE "phase8"
    /\ UNCHANGED <<app_vars, frame, ret, wrestlers, bracket_size, bracket_id, outliers, p5,
                   unmatched, num_mats>>

---------------------------------------------------------------------------
(* Mat assignment *)

\* a mat choice that never looks at the counts
min_mat_first(mat_counts) == 1

\* a mat choice that takes the highest mat number among the least loaded
min_mat_highest(mat_counts) ==
    Max({m \in DOMAIN mat_counts : mat_counts[m] = Min(Range(mat_counts))})

\* mat_counts.index(min(mat_counts)) + 1: the lowest mat number among the
\* least loaded mats
min_mat(mat_counts) ==
    Min({m \in DOMAIN mat_counts : mat_counts[m] = Min(Range(mat_counts))})

RECURSIVE assign_from(_, _, _)
assign_from(bs, k, mat_counts) ==
    IF k > Len(bs) THEN bs
    ELSE LET m == min_mat(mat_counts)
         IN  assign_from([bs EXCEPT ![k].mat_number = m], k + 1,
                         [mat_counts EXCEPT ![m] = @ + 1])

\* BracketMatcherV3._assign_mats
assign_mats(bs, mats) == assign_from(bs, 1, [m \in 1..mats |-> 0])

\* BracketMatcher._assign_mats of the legacy matcher
legacy_assign_mats(bs, mats) ==
    [i \in DOMAIN bs |-> [bs[i] EXCEPT !.mat_number = ((i - 1) % mats) + 1]]

\* lines 488-493: self.unmatched, _assign_mats, self.brackets and the return
Finish ==
    /\ pc = "finish"
    /\ \E mats \in 1..MaxMats :
          /\ num_mats' = mats
          /\ brackets' = assign_mats(brackets, mats)
    /\ unmatched' = available
    /\ pc' = "done"
    /\ last' = "return"
    /\ UNCHANGED <<app_vars, frame, ret, wrestlers, bracket_size, available, bracket_id, outliers,
                   p5, queue, still_unmatched>>

---------------------------------------------------------------------------
(* Inputs *)

Grades == {5, 8}
Weights == {100, 130}
Schools == {"A", "B"}
Targets == {3, 4}

\* Wrestler(id, grade, weight, school)
Wrestler(i, g, w, s) == [id |-> i, grade |-> g, weight |-> w, school |-> s]

\* a roster from a list of <<grade, weight, school>> rows: parse_dataframe
\* numbers the rows from 0
Roster(rows) ==
    [i \in DOMAIN rows |-> Wrestler(i - 1, rows[i][1], rows[i][2], rows[i][3])]

\* every roster of up to MaxRoster wrestlers over the small domains; the
\* engine reads schools only through equality, so the first wrestler's
\* school is fixed
SmallRosters ==
    {Roster(rows) : rows \in
        {r \in UNION {[1..n -> Grades \X Weights \X Schools] : n \in 0..MaxRoster} :
            Len(r) > 0 => r[1][3] = "A"}}

\* the four-wrestler scenarios of the specification
SameSchoolFour == Roster(<<<<5, 100, "A">>, <<5, 102, "A">>, <<5, 105, "A">>, <<5, 108, "A">>>>)
DistinctSchoolFour == Roster(<<<<5, 100, "A">>, <<5, 102, "B">>, <<5, 105, "C">>, <<5, 108, "D">>>>)
CompatibleFive ==
    Roster(<<<<5, 100, "A">>, <<5, 102, "B">>, <<5, 104, "C">>, <<5, 106, "D">>,
             <<5, 108, "E">>>>)
TwelveInFours ==
    Roster(<<<<2, 100, "A">>, <<2, 102, "B">>, <<2, 104, "C">>, <<2, 106, "D">>,
             <<6, 100, "A">>, <<6, 102, "B">>, <<6, 104, "C">>, <<6, 106, "D">>,
             <<10, 100, "A">>, <<10, 102, "B">>, <<10, 104, "C">>, <<10, 106, "D">>>>)

\* one adult among children
AdultAmongChildren ==
    Roster(<<<<5, 100, "A">>, <<12, 104, "B">>, <<5, 102, "C">>, <<6, 106, "D">>,
             <<4, 108, "E">>>>)

\* rosters on which the later phases create or change brackets
Phase2Roster3 == Roster(<<<<7, 150, "A">>, <<6, 140, "B">>, <<9, 140, "B">>, <<7, 130, "B">>>>)
Phase2Roster4 ==
    Roster(<<<<8, 150, "C">>, <<7, 160, "B">>, <<5, 150, "C">>, <<7, 150, "B">>,
             <<7, 140, "C">>>>)
Phase3Roster3 ==
    Roster(<<<<8, 110, "C">>, <<7, 100, "C">>, <<8, 160, "C">>, <<6, 110, "C">>,
             <<8, 150, "A">>>>)
Phase3Roster4 ==
    Roster(<<<<7, 150, "C">>, <<7, 105, "A">>, <<8, 140, "C">>, <<6, 120, "B">>,
             <<7, 150, "C">>, <<7, 150, "A">>>>)
Phase4Roster3 ==
    Roster(<<<<5, 130, "A">>, <<9, 110, "B">>, <<7, 160, "C">>, <<8, 105, "B">>,
             <<8, 100, "B">>>>)
Phase4Roster4 ==
    Roster(<<<<5, 110, "A">>, <<7, 110, "C">>, <<8, 110, "A">>, <<6, 120, "C">>,
             <<7, 100, "C">>>>)
Phase7Roster ==
    Roster(<<<<5, 100, "C">>, <<8, 150, "B">>, <<7, 120, "C">>, <<5, 130, "C">>,
             <<9, 110, "C">>, <<5, 130, "B">>>>)
SwapRoster ==
    Roster(<<<<5, 120, "B">>, <<5, 160, "B">>, <<8, 140, "C">>, <<7, 160, "C">>,
             <<7, 150, "A">>, <<9, 140, "C">>, <<9, 110, "A">>, <<6, 110, "A">>>>)

\* three wrestlers two grades apart
GradeSpreadTwo == Roster(<<<<5, 100, "A">>, <<5, 100, "B">>, <<7, 100, "C">>>>)

\* three light wrestlers and one 52 pounds above the heaviest of them
HeavyStraggler == Roster(<<<<5, 100, "A">>, <<5, 102, "B">>, <<5, 104, "C">>, <<5, 160, "D">>>>)

\* twelve wrestlers of which two reach Phase 8: the first finds no swap, the
\* second is swapped in
LateSwap ==
    Roster(<<<<7, 166, "A">>, <<6, 166, "B">>, <<6, 122, "A">>, <<9, 122, "B">>,
             <<9, 188, "A">>, <<7, 100, "B">>, <<5, 188, "B">>, <<8, 188, "B">>,
             <<6, 188, "B">>, <<5, 166, "A">>, <<9, 144, "A">>, <<6, 100, "A">>>>)

\* two wrestlers of one grade 1700 pounds apart, as a mistyped weight gives
WeightTypo == Roster(<<<<5, 100, "A">>, <<5, 1800, "B">>>>)

\* twelve wrestlers of one grade within 11 pounds
CrowdedGrade ==
    Roster(<<<<5, 100, "A">>, <<5, 101, "B">>, <<5, 102, "C">>, <<5, 103, "D">>,
             <<5, 104, "A">>, <<5, 105, "B">>, <<5, 106, "C">>, <<5, 107, "D">>,
             <<5, 108, "A">>, <<5, 109, "B">>, <<5, 110, "C">>, <<5, 111, "D">>>>)

\* eight wrestlers of which the last to be handled is swapped in, three
\* swaps of different weight sums being possible
SwapChoice ==
    Roster(<<<<5, 140, "D">>, <<8, 180, "A">>, <<6, 144, "D">>, <<8, 150, "C">>,
             <<7, 110, "B">>, <<7, 150, "C">>, <<5, 180, "D">>, <<6, 150, "C">>>>)

\* ten wrestlers for brackets of five: two brackets of four are formed and
\* the first leftover is swapped into one of them
ShortSource ==
    Roster(<<<<7, 188, "C">>, <<8, 100, "A">>, <<10, 166, "B">>, <<10, 122, "D">>,
             <<7, 166, "D">>, <<5, 144, "A">>, <<8, 100, "C">>, <<7, 100, "B">>,
             <<7, 188, "D">>, <<5, 122, "C">>>>)

\* six wrestlers, three of whom fit one bracket under the widest
\* tolerances (ids 0, 1, 2: grades 5..8, weights 100..144, two of school A);
\* each of the three has a closer partner of a new school (ids 3, 4, 5) who
\* fits neither of the other two
DivertedSeeds ==
    Roster(<<<<5, 100, "A">>, <<8, 100, "B">>, <<5, 144, "A">>,
             <<4, 90, "C">>, <<9, 100, "D">>, <<5, 150, "E">>>>)

\* the rosters that list the members of `roster` in every order (ids follow
\* the position, as parse_dataframe numbers them)
Orderings(roster) ==
    {[i \in DOMAIN roster |->
         [roster[p[i]] EXCEPT !.id = i - 1]] :
        p \in {q \in [DOMAIN roster -> DOMAIN roster] :
                  \A a, b \in DOMAIN roster : a # b => q[a] # q[b]}}

Scenarios ==
    {[roster |-> GradeSpreadTwo, target |-> 3],
     [roster |-> HeavyStraggler, target |-> 4],
     [roster |-> SameSchoolFour, target |-> 4],
     [roster |-> DistinctSchoolFour, target |-> 4],
     [roster |-> CompatibleFive, target |-> 4],
     [roster |-> TwelveInFours, target |-> 4],
     [roster |-> AdultAmongChildren, target |-> 4],
     [roster |-> AdultAmongChildren, target |-> 3],
     [roster |-> Phase2Roster3, target |-> 3],
     [roster |-> Phase2Roster4, target |-> 4],
     [roster |-> Phase3Roster3, target |-> 3],
     [roster |-> Phase3Roster4, target |-> 4],
     [roster |-> Phase4Roster3, target |-> 3],
     [roster |-> Phase4Roster4, target |-> 4],
     [roster |-> Phase7Roster, target |-> 4],
     [roster |-> SwapRoster, target |-> 4],
     [roster |-> LateSwap, target |-> 4],
     [roster |-> WeightTypo, target |-> 3],
     [roster |-> CrowdedGrade, target |-> 4],
     [roster |-> SwapChoice, target |-> 4],
     [roster |-> ShortSource, target |-> 5],
     [roster |-> DivertedSeeds, target |-> 3],
     [roster |-> DivertedSeeds, target |-> 4]}

\* each scenario, and each scenario with one wrestler withdrawn (the ids of
\* the others stay as parsed)
ScenarioInputs ==
    Scenarios \cup
    UNION {{[roster |-> RemoveAt(sc.roster, k), target |-> sc.target] :
               k \in DOMAIN sc.roster} : sc \in Scenarios}

Inputs ==
    {[roster |-> r, target |-> t] : r \in SmallRosters, t \in Targets}
    \cup ScenarioInputs
    \cup {[roster |-> r, target |-> 4] :
             r \in Orderings(SameSchoolFour) \cup Orderings(DistinctSchoolFour)
                   \cup Orderings(CompatibleFive)}

\* the state after BracketMatcherV3.__init__ (lines 51-55)
Init ==
    /\ \E inp \in Inputs :
          /\ wrestlers = inp.roster
          /\ bracket_size = inp.target
    /\ pc = "start"
    /\ available = <<>>
    /\ brackets = <<>>
    /\ bracket_id = 0
    /\ outliers = <<>>
    /\ p5 = 1
    /\ queue = <<>>
    /\ still_unmatched = <<>>
    /\ unmatched = <<>>
    /\ num_mats = 0
    /\ last = "init"
    /\ frame = NoFrame
    /\ ret = None
    /\ event = NoEvent
    /\ response = "none"
    /\ edits = 0

Next ==
    \/ MatchAllBegin
    \/ Phase0Step
    \/ Phase1Step
    \/ Phase2Step
    \/ Phase3Step
    \/ Phase4Step
    \/ Phase5Step
    \/ Phase6Step
    \/ Phase7Step
    \/ Phase8Step
    \/ Finish

Spec == Init /\ [][Next]_vars

\* match_all is one synchronous call: once entered it keeps running, no step
\* waits for anything. Every label but "done" has a statement, so whether
\* the call can go on is decided by pc alone: KeepsRunning is enabled exactly
\* when pc # "done" (its first disjunct is a step that changes pc), and as
\* every step of a behaviour is a Next step, the KeepsRunning steps of a
\* behaviour are its Next steps before the return.
KeepsRunning ==
    /\ pc # "done"
    /\ \/ pc' = "done" /\ UNCHANGED <<wrestlers, bracket_size, available, brackets,
                                      bracket_id, outliers, p5, queue,
                                      still_unmatched, unmatched, num_mats, last,
                                      frame, ret, app_vars>>
       \/ Next

SpecRun == Init /\ [][Next]_vars /\ WF_vars(KeepsRunning)

---------------------------------------------------------------------------
(* _assign_mats on its own: any number of brackets on any number of mats *)

\* n brackets of three as the phases build them: ids from 0, no mat yet
mat_brackets(n) ==
    [k \in 1..n |->
        [id |-> k - 1,
         wrestlers |-> Roster(<<<<5, 100, "A">>, <<5, 100, "B">>, <<5, 100, "C">>>>),
         mat_number |-> NoMat,
         relaxations |-> <<>>]]

InitMats ==
    /\ \E n \in 0..MaxMatBrackets : brackets = mat_brackets(n)
    /\ \E mats \in 1..MaxMats : num_mats = mats
    /\ pc = "mats"
    /\ wrestlers = <<>>
    /\ bracket_size = 3
    /\ available = <<>>
    /\ bracket_id = 0
    /\ outliers = <<>>
    /\ p5 = 1
    /\ queue = <<>>
    /\ still_unmatched = <<>>
    /\ unmatched = <<>>
    /\ last = "init"
    /\ frame = NoFrame
    /\ ret = None
    /\ event = NoEvent
    /\ response = "none"
    /\ edits = 0

\* self._assign_mats(brackets, num_mats), lines 495-501
AssignMats ==
    /\ pc = "mats"
    /\ brackets' = assign_mats(brackets, num_mats)
    /\ pc' = "mats_done"
    /\ last' = "assign"
    /\ UNCHANGED <<app_vars, frame, ret, wrestlers, bracket_size, available, bracket_id, outliers,
                   p5, queue, still_unmatched, unmatched, num_mats>>

NextMats == AssignMats

SpecMats == InitMats /\ [][NextMats]_vars

---------------------------------------------------------------------------
(* The helpers called on their own *)

\* the (max_weight, max_grade) pairs match_all passes to the helpers:
\* lines 215-216 (Phase 0) and the calls of Phases 1-6
EngineTolerances ==
    {[w |-> MAX_WEIGHT_STRICT, g |-> MAX_GRADE],
     [w |-> 25, g |-> MAX_GRADE],
     [w |-> 25, g |-> MAX_GRADE_EMERGENCY],
     [w |-> MAX_WEIGHT_RELAXED, g |-> MAX_GRADE],
     [w |-> MAX_WEIGHT_RELAXED, g |-> MAX_GRADE_EMERGENCY]}

\* _find_partners entered: lines 101-111, with max_same_school=2 as every
\* caller passes it
find_partners_frame(seed, pool, target_size, tol) ==
    [fn |-> "_find_partners",
     seed |-> seed,
     pool |-> pool,
     target_size |-> target_size,
     max_weight |-> tol.w,
     max_grade |-> tol.g,
     max_same_school |-> 2,
     group |-> <<seed>>,
     candidates |-> SelectSeq(pool, LAMBDA w : w.id # seed.id)]

\* _find_best_bracket_isolated entered and its seeds sorted: lines 152-169;
\* tried is the number of seeds of sorted_pool the loop of line 171 has tried
find_best_frame(pool, target_size, tol) ==
    [fn |-> "_find_best_bracket_isolated",
     pool |-> pool,
     target_size |-> target_size,
     max_weight |-> tol.w,
     max_grade |-> tol.g,
     max_same_school |-> 2,
     sorted_pool |-> sorted_by_isolation(pool, pool, tol.w),
     tried |-> 0]

\* _calculate_isolation entered: line 70
isolation_frame(wrestler, pool, max_weight) ==
    [fn |-> "_calculate_isolation",
     wrestler |-> wrestler,
     pool |-> pool,
     max_weight |-> max_weight]

\* the positions of the pool whose wrestler is the seed of a call, or the
\* wrestler scored: every position of a scenario pool, the first of a small
\* pool (the small pools come in every order)
CallSeeds(pool) ==
    IF pool \in SmallRosters THEN DOMAIN pool \cap {1} ELSE DOMAIN pool

\* the calls made on their own: on a pool, for the sizes and tolerances
\* match_all uses
Calls(pool, target_size) ==
    {find_partners_frame(pool[k], pool, target_size, tol) :
        k \in CallSeeds(pool), tol \in EngineTolerances}
    \cup {find_best_frame(pool, target_size, tol) : tol \in EngineTolerances}
    \cup {isolation_frame(pool[k], pool, tol.w) :
            k \in CallSeeds(pool), tol \in EngineTolerances}

InitCalls ==
    /\ \E inp \in Inputs :
          /\ wrestlers = inp.roster
          /\ bracket_size = inp.target
          /\ frame \in Calls(inp.roster, inp.target)
    /\ pc = "call"
    /\ ret = None
    /\ available = <<>>
    /\ brackets = <<>>
    /\ bracket_id = 0
    /\ outliers = <<>>
    /\ p5 = 1
    /\ queue = <<>>
    /\ still_unmatched = <<>>
    /\ unmatched = <<>>
    /\ num_mats = 0
    /\ last = "init"
    /\ event = NoEvent
    /\ response = "none"
    /\ edits = 0

match_all_vars ==
    <<wrestlers, bracket_size, available, brackets, bracket_id, outliers, p5,
      queue, still_unmatched, unmatched, num_mats, last>>

\* best of lines 115-141 for the current group and candidates
frame_best ==
    best_candidate(frame.group, frame.candidates, frame.max_weight,
                   frame.max_grade, frame.max_same_school)

\* one iteration of the while loop of _find_partners that appends a partner
\* (lines 114-148)
FindPartnersStep ==
    /\ pc = "call"
    /\ frame.fn = "_find_partners"
    /\ Len(frame.group) < frame.target_size
    /\ frame.candidates # <<>>
    /\ frame_best # 0
    /\ frame' = [frame EXCEPT !.group = Append(@, frame.candidates[frame_best]),
                              !.candidates = RemoveAt(@, frame_best)]
    /\ UNCHANGED <<pc, ret>>
    /\ UNCHANGED match_all_vars
    /\ UNCHANGED app_vars

\* the loop is left (line 114 or line 144) and _find_partners returns
\* (line 150)
FindPartnersReturn ==
    /\ pc = "call"
    /\ frame.fn = "_find_partners"
    /\ \/ Len(frame.group) >= frame.target_size
       \/ frame.candidates = <<>>
       \/ frame_best = 0
    /\ ret' = group_or_none(frame.group, frame.target_size)
    /\ pc' = "returned"
    /\ UNCHANGED frame
    /\ UNCHANGED match_all_vars
    /\ UNCHANGED app_vars

\* the group the loop of _find_best_bracket_isolated builds from its next
\* seed (lines 172-175)
next_seed_group ==
    find_partners(frame.sorted_pool[frame.tried + 1], frame.pool,
                  frame.target_size, frame.max_weight, frame.max_grade,
                  frame.max_same_school)

\* "group and len(group) == target_size" of line 177
is_full_group(group, target_size) ==
    group # None /\ Len(group) = target_size

\* one iteration of the loop of lines 171-178: the group of the next seed is
\* returned, or the loop goes on
FindBestTry ==
    /\ pc = "call"
    /\ frame.fn = "_find_best_bracket_isolated"
    /\ frame.tried < Len(frame.sorted_pool)
    /\ LET group == next_seed_group
       IN  IF is_full_group(group, frame.target_size)
           THEN /\ ret' = group
                /\ pc' = "returned"
                /\ UNCHANGED frame
           ELSE /\ frame' = [frame EXCEPT !.tried = @ + 1]
                /\ UNCHANGED <<pc, ret>>
    /\ UNCHANGED match_all_vars
    /\ UNCHANGED app_vars

\* the loop has tried every seed: return None (line 180)
FindBestReturnNone ==
    /\ pc = "call"
    /\ frame.fn = "_find_best_bracket_isolated"
    /\ frame.tried = Len(frame.sorted_pool)
    /\ ret' = None
    /\ pc' = "returned"
    /\ UNCHANGED frame
    /\ UNCHANGED match_all_vars
    /\ UNCHANGED app_vars

\* _calculate_isolation runs and returns (lines 75-99)
CalculateIsolationReturn ==
    /\ pc = "call"
    /\ frame.fn = "_calculate_isolation"
    /\ ret' = calculate_isolation(frame.wrestler, frame.pool, frame.max_weight)
    /\ pc' = "returned"
    /\ UNCHANGED frame
    /\ UNCHANGED match_all_vars
    /\ UNCHANGED app_vars

NextCalls ==
    \/ FindPartnersStep
    \/ FindPartnersReturn
    \/ FindBestTry
    \/ FindBestReturnNone
    \/ CalculateIsolationReturn

SpecCalls == InitCalls /\ [][NextCalls]_vars

---------------------------------------------------------------------------
(* The stored event and the manual edit requests of app.py *)

MaxEdits == 3

\* ConstraintRelaxation: the member name and its value
relaxation_value(r) ==
    CASE r = "RANK" -> "rank_relaxed"
      [] r = "GRADE" -> "grade_relaxed"
      [] r = "WEIGHT" -> "weight_relaxed"
      [] r = "SCHOOL" -> "school_relaxed"

\* ConstraintRelaxation(value)
relaxation_of(v) ==
    CASE v = "rank_relaxed" -> "RANK"
      [] v = "grade_relaxed" -> "GRADE"
      [] v = "weight_relaxed" -> "WEIGHT"
      [] v = "school_relaxed" -> "SCHOOL"

\* chr(ord('A') + k) for k in 0..25
Letters ==
    <<"A", "B", "C", "D", "E", "F", "G", "H", "I", "J", "K", "L", "M",
      "N", "O", "P", "Q", "R", "S", "T", "U", "V", "W", "X", "Y", "Z">>

RECURSIVE letter_label_loop(_, _)
\* the loop of Bracket.letter_label (lines 75-79) entered with n and result
letter_label_loop(n, result) ==
    IF (n \div 26) - 1 < 0
    THEN <<Letters[(n % 26) + 1]>> \o result
    ELSE letter_label_loop((n \div 26) - 1, <<Letters[(n % 26) + 1]>> \o result)

\* Bracket.letter_label of a bracket with this id: the label as the list of
\* its letters
letter_label(id) == letter_label_loop(id, <<>>)

\* Bracket.to_dict: the derived entries are written, the flags as values
bracket_to_dict(b) ==
    [id |-> b.id,
     wrestlers |-> b.wrestlers,
     mat_number |-> b.mat_number,
     size |-> Len(b.wrestlers),
     relaxations |-> [i \in DOMAIN b.relaxations |-> relaxation_value(b.relaxations[i])]]

\* Bracket.from_dict: the derived entries are not read
bracket_from_dict(data) ==
    [id |-> data.id,
     wrestlers |-> data.wrestlers,
     mat_number |-> data.mat_number,
     relaxations |-> [i \in DOMAIN data.relaxations |-> relaxation_of(data.relaxations[i])]]

RECURSIVE sum_of_sizes(_)
\* sum(b.size for b in self.brackets)
sum_of_sizes(bs) ==
    IF bs = <<>> THEN 0 ELSE Len(Head(bs).wrestlers) + sum_of_sizes(Tail(bs))

total_wrestlers(e) == sum_of_sizes(e.brackets) + Len(e.unmatched_wrestlers)

\* Event.to_dict
event_to_dict(e) ==
    [id |-> e.id,
     num_mats |-> e.num_mats,
     bracket_size |-> e.bracket_size,
     brackets |-> [i \in DOMAIN e.brackets |-> bracket_to_dict(e.brackets[i])],
     unmatched_wrestlers |-> e.unmatched_wrestlers,
     total_wrestlers |-> total_wrestlers(e),
     total_brackets |-> Len(e.brackets)]

\* Event.from_dict
event_from_dict(data) ==
    [id |-> data.id,
     num_mats |-> data.num_mats,
     bracket_size |-> data.bracket_size,
     brackets |-> [i \in DOMAIN data.brackets |-> bracket_from_dict(data.brackets[i])],
     unmatched_wrestlers |-> data.unmatched_wrestlers]

\* create_event, lines 186-199: the Event built from what match_all returned,
\* saved as a document
CreateEvent ==
    /\ pc = "done"
    /\ event = NoEvent
    /\ event' = event_to_dict([id |-> "event",
                               num_mats |-> num_mats,
                               bracket_size |-> bracket_size,
                               brackets |-> brackets,
                               unmatched_wrestlers |-> unmatched])
    /\ response' = "created"
    /\ pc' = "stored"
    /\ UNCHANGED <<edits, frame, ret, wrestlers, bracket_size, available, brackets,
                   bracket_id, outliers, p5, queue, still_unmatched, unmatched,
                   num_mats, last>>

\* next((x for x in list if x.id == id), None): the first position, 0 for
\* None
FirstIndex(list, id) ==
    LET hits == {i \in DOMAIN list : list[i].id = id}
    IN  IF hits = {} THEN 0 ELSE Min(hits)

\* list.remove(x): the first element equal to x goes
RemoveFirst(list, x) ==
    LET hits == {i \in DOMAIN list : list[i] = x}
    IN  IF hits = {} THEN list ELSE RemoveAt(list, Min(hits))

\* what a handler leaves behind: the stored document and the answer
Answer(data, answer) == [event |-> data, response |-> answer]

\* update_event(..., event.to_dict()) and the success answer
Updated(e) == Answer(event_to_dict(e), "success")

\* remove_wrestler, lines 299-320, on the stored document
remove_wrestler(data, bracket_id_arg, wrestler_id) ==
    LET e == event_from_dict(data)
        b == FirstIndex(e.brackets, bracket_id_arg)
        w == FirstIndex(e.brackets[b].wrestlers, wrestler_id)
    IN  IF b = 0 THEN Answer(data, "bracket_not_found")
        ELSE IF w = 0 THEN Answer(data, "wrestler_not_found")
        ELSE Updated([e EXCEPT
                 !.brackets[b].wrestlers = RemoveFirst(@, e.brackets[b].wrestlers[w]),
                 !.unmatched_wrestlers = Append(@, e.brackets[b].wrestlers[w])])

\* the test of line 345 without the equality
bracket_is_full_strict(e, b) == Len(e.brackets[b].wrestlers) > e.bracket_size

\* line 345
bracket_is_full(e, b) == Len(e.brackets[b].wrestlers) >= e.bracket_size

\* add_wrestler, lines 334-358, on the stored document
add_wrestler(data, bracket_id_arg, wrestler_id) ==
    LET e == event_from_dict(data)
        b == FirstIndex(e.brackets, bracket_id_arg)
        w == FirstIndex(e.unmatched_wrestlers, wrestler_id)
    IN  IF b = 0 THEN Answer(data, "bracket_not_found")
        ELSE IF w = 0 THEN Answer(data, "wrestler_not_found")
        ELSE IF bracket_is_full(e, b) THEN Answer(data, "bracket_full")
        ELSE Updated([e EXCEPT
                 !.brackets[b].wrestlers = Append(@, e.unmatched_wrestlers[w]),
                 !.unmatched_wrestlers = RemoveFirst(@, e.unmatched_wrestlers[w])])

\* a deletion that drops the members with the bracket
delete_bracket_members_dropped(data, bracket_id_arg) ==
    LET e == event_from_dict(data)
        b == FirstIndex(e.brackets, bracket_id_arg)
    IN  IF b = 0 THEN Answer(data, "bracket_not_found")
        ELSE Updated([e EXCEPT !.brackets = RemoveFirst(@, e.brackets[b])])

\* delete_bracket, lines 371-384, on the stored document
delete_bracket(data, bracket_id_arg) ==
    LET e == event_from_dict(data)
        b == FirstIndex(e.brackets, bracket_id_arg)
    IN  IF b = 0 THEN Answer(data, "bracket_not_found")
        ELSE Updated([e EXCEPT
                 !.unmatched_wrestlers = @ \o e.brackets[b].wrestlers,
                 !.brackets = RemoveFirst(@, e.brackets[b])])

\* an id taken from the number of brackets
next_id_by_count(bs) == Len(bs)

\* line 397: max((b.id for b in event.brackets), default=-1) + 1
next_id(bs) == Max({bs[i].id : i \in DOMAIN bs} \cup {-1}) + 1

\* create_bracket, lines 395-404, on the stored document
create_bracket(data) ==
    LET e == event_from_dict(data)
    IN  Updated([e EXCEPT !.brackets =
                    Append(@, [id |-> next_id(e.brackets),
                               wrestlers |-> <<>>,
                               mat_number |-> 1,
                               relaxations |-> <<>>])])

\* the ids a request can name: those of the event's brackets and one that
\* no bracket has; those of the roster and one that no wrestler has
RequestBracketIds ==
    IF event = NoEvent THEN {0}
    ELSE {event.brackets[i].id : i \in DOMAIN event.brackets}
         \cup {next_id(event.brackets)}

RequestWrestlerIds == {wrestlers[i].id : i \in DOMAIN wrestlers} \cup {Len(wrestlers)}

\* a handler runs on the stored document, or finds no event (get_event
\* returns None before create_event has saved one)
Handled(result) ==
    /\ pc \in {"start", "stored"}
    /\ edits < MaxEdits
    /\ IF event = NoEvent
       THEN event' = event /\ response' = "event_not_found"
       ELSE event' = result.event /\ response' = result.response
    /\ edits' = edits + 1
    /\ UNCHANGED <<pc, frame, ret, wrestlers, bracket_size, available, brackets,
                   bracket_id, outliers, p5, queue, still_unmatched, unmatched,
                   num_mats>>

\* POST /api/event/<event_id>/remove-wrestler
RemoveWrestlerRequest ==
    /\ \E b \in RequestBracketIds, w \in RequestWrestlerIds :
          Handled(remove_wrestler(event, b, w))
    /\ last' = "remove_wrestler"

\* POST /api/event/<event_id>/add-wrestler
AddWrestlerRequest ==
    /\ \E b \in RequestBracketIds, w \in RequestWrestlerIds :
          Handled(add_wrestler(event, b, w))
    /\ last' = "add_wrestler"

\* POST /api/event/<event_id>/delete-bracket
DeleteBracketRequest ==
    /\ \E b \in RequestBracketIds : Handled(delete_bracket(event, b))
    /\ last' = "delete_bracket"

\* POST /api/event/<event_id>/create-bracket
CreateBracketRequest ==
    /\ Handled(create_bracket(event))
    /\ last' = "create_bracket"

\* the rosters events are created from
EditInputs ==
    {[roster |-> HeavyStraggler, target |-> 4],
     [roster |-> CompatibleFive, target |-> 4],
     [roster |-> SwapRoster, target |-> 4],
     [roster |-> SameSchoolFour, target |-> 3]}

InitEdits ==
    /\ \E inp \in EditInputs :
          /\ wrestlers = inp.roster
          /\ bracket_size = inp.target
    /\ pc = "start"
    /\ available = <<>>
    /\ brackets = <<>>
    /\ bracket_id = 0
    /\ outliers = <<>>
    /\ p5 = 1
    /\ queue = <<>>
    /\ still_unmatched = <<>>
    /\ unmatched = <<>>
    /\ num_mats = 0
    /\ last = "init"
    /\ frame = NoFrame
    /\ ret = None
    /\ event = NoEvent
    /\ response = "none"
    /\ edits = 0

NextEdits ==
    \/ Next
    \/ CreateEvent
    \/ RemoveWrestlerRequest
    \/ AddWrestlerRequest
    \/ DeleteBracketRequest
    \/ CreateBracketRequest

SpecEdits == InitEdits /\ [][NextEdits]_vars

---------------------------------------------------------------------------
(* Bracket.staggered_matchups called on its own *)

MaxMembers == 5

\* the None of line 120, the bye slot; the players are 0, 1, ...
Bye == -1

\* lines 119-120: list(range(n)), with the bye slot for odd counts
players_of(n) ==
    [i \in 1..n |-> i - 1] \o (IF n % 2 = 1 THEN <<Bye>> ELSE <<>>)

\* staggered_matchups entered with n >= 2 checked or not: lines 115-126;
\* round counts the iterations of the loop of line 128 done
matchups_frame(members) ==
    [fn |-> "staggered_matchups",
     wrestlers |-> members,
     total |-> Len(players_of(Len(members))),
     fixed |-> IF members = <<>> THEN Bye ELSE Head(players_of(Len(members))),
     rotating |-> IF members = <<>> THEN <<>> ELSE Tail(players_of(Len(members))),
     result |-> <<>>,
     round |-> 0]

\* lines 129-131 and 133-135: the pair of players a and b, unless one is
\* the bye slot
matchup(members, a, b) ==
    IF a # Bye /\ b # Bye THEN <<<<members[a + 1], members[b + 1]>>>> ELSE <<>>

RECURSIVE inner_matchups(_, _, _, _)
\* lines 132-135: for k in range(k, total // 2), rotating[-k] being counted
\* from the end
inner_matchups(members, rotating, k, total) ==
    IF k >= total \div 2
    THEN <<>>
    ELSE matchup(members, rotating[k + 1], rotating[Len(rotating) - k + 1])
         \o inner_matchups(members, rotating, k + 1, total)

\* a rotation that leaves the list as it is
rotated_not(rotating) == rotating

\* line 136: [rotating[-1]] + rotating[:-1]
rotated(rotating) ==
    <<rotating[Len(rotating)]>> \o SubSeq(rotating, 1, Len(rotating) - 1)

\* the member lists of the brackets called on: every list without
\* repetition of up to MaxMembers of the wrestlers 1..MaxMembers
MemberLists ==
    {[i \in DOMAIN ids |-> Wrestler(ids[i], 5, 100, "A")] : ids \in
        {s \in UNION {[1..n -> 1..MaxMembers] : n \in 0..MaxMembers} :
            \A i, j \in DOMAIN s : i # j => s[i] # s[j]}}

InitMatchups ==
    /\ \E members \in MemberLists : frame = matchups_frame(members)
    /\ pc = "call"
    /\ ret = None
    /\ wrestlers = <<>>
    /\ bracket_size = 4
    /\ available = <<>>
    /\ brackets = <<>>
    /\ bracket_id = 0
    /\ outliers = <<>>
    /\ p5 = 1
    /\ queue = <<>>
    /\ still_unmatched = <<>>
    /\ unmatched = <<>>
    /\ num_mats = 0
    /\ last = "init"
    /\ event = NoEvent
    /\ response = "none"
    /\ edits = 0

\* one iteration of the loop of lines 128-136
MatchupsRound ==
    /\ pc = "call"
    /\ frame.fn = "staggered_matchups"
    /\ Len(frame.wrestlers) >= 2
    /\ frame.round < frame.total - 1
    /\ frame' = [frame EXCEPT
           !.result = @ \o matchup(frame.wrestlers, frame.fixed, frame.rotating[1])
                        \o inner_matchups(frame.wrestlers, frame.rotating, 1,
                                          frame.total),
           !.rotating = rotated(@),
           !.round = @ + 1]
    /\ UNCHANGED <<pc, ret>>
    /\ UNCHANGED match_all_vars
    /\ UNCHANGED app_vars

\* "if n < 2: return []" (lines 116-117), or the loop is over and result is
\* returned (line 138)
MatchupsReturn ==
    /\ pc = "call"
    /\ frame.fn = "staggered_matchups"
    /\ \/ Len(frame.wrestlers) < 2
       \/ frame.round = frame.total - 1
    /\ ret' = frame.result
    /\ pc' = "returned"
    /\ UNCHANGED frame
    /\ UNCHANGED match_all_vars
    /\ UNCHANGED app_vars

NextMatchups ==
    \/ MatchupsRound
    \/ MatchupsReturn

SpecMatchups == InitMatchups /\ [][NextMatchups]_vars

---------------------------------------------------------------------------
(* Properties of the returned grouping *)

\* the run is over: match_all has returned (brackets, unmatched)
Returned == pc = "done"

\* the number of places (a slot of a bracket, or a slot of the unmatched
\* list) that hold the wrestler w
Places(w) ==
    Cardinality({<<i, j>> \in (DOMAIN brackets) \X (1..bracket_size + 1) :
                    j <= Len(brackets[i].wrestlers) /\ brackets[i].wrestlers[j] = w})
    + Cardinality({j \in DOMAIN unmatched : unmatched[j] = w})

\* C1: once match_all has returned, every wrestler of the roster is in
\* exactly one place: one slot of one bracket, or one slot of the unmatched
\* list; and nobody else is in a bracket or in the unmatched list.
C1_Partition ==
    Returned =>
        /\ \A i \in DOMAIN wrestlers : Places(wrestlers[i]) = 1
        /\ \A i \in DOMAIN brackets : Range(brackets[i].wrestlers) \subseteq Range(wrestlers)
        /\ Range(unmatched) \subseteq Range(wrestlers)

\* a return with a bracket and with somebody unmatched
C1_Witness ==
    /\ Returned
    /\ brackets # <<>>
    /\ unmatched # <<>>

\* C2: every bracket of the returned list has at least 3 members and at
\* most the target size.
C2_Size ==
    Returned =>
        \A i \in DOMAIN brackets :
            /\ Len(brackets[i].wrestlers) >= 3
            /\ Len(brackets[i].wrestlers) <= bracket_size

\* a return holding a bracket below the target size next to a full one
C2_Witness ==
    /\ Returned
    /\ \E i \in DOMAIN brackets : Len(brackets[i].wrestlers) < bracket_size
    /\ \E i \in DOMAIN brackets : Len(brackets[i].wrestlers) = bracket_size

\* C3: at every moment the flags stored on a bracket are the violations of
\* its current members: also after an absorption or a swap changed them.
C3_FlagsRecomputed ==
    \A i \in DOMAIN brackets :
        brackets[i].relaxations = violations(analyze(brackets[i].wrestlers))

\* an absorption or a swap has just changed the members of a bracket
C3_Witness ==
    /\ last \in {"absorb", "swap"}
    /\ \E i \in DOMAIN brackets : brackets[i].relaxations # <<>>

---------------------------------------------------------------------------
(* The flags and the scenarios of the specification *)

\* C6: the flags of a bracket follow the baseline stated in the
\* specification: WEIGHT exactly when the weight spread exceeds 10, GRADE
\* exactly when the grade spread exceeds 1, SCHOOL exactly when some school
\* has more than 1 member, and no other flag.
C6_BaselineFlags ==
    \A i \in DOMAIN brackets :
        LET result == analyze(brackets[i].wrestlers)
            flags == Range(brackets[i].relaxations)
        IN  /\ ("WEIGHT" \in flags) <=> (result.weight_spread > 10)
            /\ ("GRADE" \in flags) <=> (result.grade_spread > 1)
            /\ ("SCHOOL" \in flags) <=> (result.max_same_school > 1)
            /\ flags \subseteq {"WEIGHT", "GRADE", "SCHOOL"}

\* four wrestlers of one grade and one school, weights within the baseline
\* spread, to be grouped in fours
FourAlike ==
    /\ Len(wrestlers) = 4
    /\ bracket_size = 4
    /\ \A i, j \in DOMAIN wrestlers :
          /\ wrestlers[i].grade = wrestlers[j].grade
          /\ wrestlers[i].school = wrestlers[j].school
          /\ Abs(wrestlers[i].weight - wrestlers[j].weight) <= MAX_WEIGHT_STRICT

\* C7 as stated: four wrestlers of one grade and one school come back as one
\* bracket of all four with the SCHOOL flag, and nobody unmatched.
C7_OneBracketWithSchoolFlag ==
    (Returned /\ FourAlike) =>
        /\ Len(brackets) = 1
        /\ Range(brackets[1].wrestlers) = Range(wrestlers)
        /\ "SCHOOL" \in Range(brackets[1].relaxations)
        /\ unmatched = <<>>

\* C7, amended: four wrestlers of one grade and one school come back with no
\* bracket at all, and the unmatched list holds all four in roster order.
C7_AllUnmatched ==
    (Returned /\ FourAlike) =>
        /\ brackets = <<>>
        /\ unmatched = wrestlers

\* match_all has returned on four wrestlers of one grade and one school
C7_Witness == Returned /\ FourAlike

\* four wrestlers of one grade from four schools, weighing 100, 102, 105 and
\* 108 in some order, to be grouped in fours
FourDistinct ==
    /\ Len(wrestlers) = 4
    /\ bracket_size = 4
    /\ {wrestlers[i].weight : i \in DOMAIN wrestlers} = {100, 102, 105, 108}
    /\ \A i, j \in DOMAIN wrestlers :
          /\ wrestlers[i].grade = wrestlers[j].grade
          /\ i # j => wrestlers[i].school # wrestlers[j].school

\* C8: four wrestlers of one grade from four schools, weighing 100, 102, 105
\* and 108, come back as exactly one bracket of the four, with no flag and
\* nobody unmatched.
C8_OneCleanBracket ==
    (Returned /\ FourDistinct) =>
        /\ Len(brackets) = 1
        /\ Len(brackets[1].wrestlers) = 4
        /\ Range(brackets[1].wrestlers) = Range(wrestlers)
        /\ brackets[1].relaxations = <<>>
        /\ unmatched = <<>>

\* match_all has returned on such a roster whose first wrestler is not the
\* lightest
C8_Witness ==
    /\ Returned
    /\ FourDistinct
    /\ wrestlers[1].weight # 100

\* w is more than 3 grades away from every other wrestler of the roster
GradeStranded(w) ==
    \A i \in DOMAIN wrestlers :
        wrestlers[i] # w => Abs(wrestlers[i].grade - w.grade) > MAX_GRADE_EMERGENCY

\* C9: no bracket ever has a grade spread above 3; and a wrestler more than
\* 3 grades away from everybody else is in no returned bracket and is in
\* the returned unmatched list.
C9_EmergencyGradeBound ==
    /\ \A i \in DOMAIN brackets :
          analyze(brackets[i].wrestlers).grade_spread <= MAX_GRADE_EMERGENCY
    /\ Returned =>
          \A k \in DOMAIN wrestlers :
              GradeStranded(wrestlers[k]) =>
                  /\ \A i \in DOMAIN brackets :
                        wrestlers[k] \notin Range(brackets[i].wrestlers)
                  /\ wrestlers[k] \in Range(unmatched)

\* a return with a bracket built next to a wrestler stranded by grade
C9_Witness ==
    /\ Returned
    /\ brackets # <<>>
    /\ \E k \in DOMAIN wrestlers : GradeStranded(wrestlers[k])

---------------------------------------------------------------------------
(* Properties of the mat assignment *)

MatsAssigned == pc = "mats_done"

\* the number of brackets on mat m
MatLoad(m) == Cardinality({i \in DOMAIN brackets : brackets[i].mat_number = m})

\* the number of brackets before the k-th that are on mat m
MatLoadBefore(k, m) ==
    Cardinality({i \in 1..(k - 1) : brackets[i].mat_number = m})

\* C4: after _assign_mats every bracket has a mat number in 1..num_mats,
\* and no mat holds more than one bracket more than any other mat.
C4_MatsBalanced ==
    MatsAssigned =>
        /\ \A i \in DOMAIN brackets : brackets[i].mat_number \in 1..num_mats
        /\ \A m1, m2 \in 1..num_mats : MatLoad(m1) - MatLoad(m2) <= 1

\* an assignment that cannot be even: several mats, more brackets than mats,
\* and a remainder
C4_Witness ==
    /\ MatsAssigned
    /\ num_mats >= 2
    /\ Len(brackets) > num_mats
    /\ Len(brackets) % num_mats # 0

\* C10: _assign_mats puts each bracket, in list order, on the lowest-numbered
\* mat among those with the fewest brackets so far; so the k-th bracket
\* (k from 0) is on mat (k mod num_mats) + 1, the legacy round-robin gives
\* the same assignment, and 3 brackets on 3 mats get mats 1, 2, 3.
C10_RoundRobin ==
    MatsAssigned =>
        /\ \A k \in DOMAIN brackets :
              /\ \A m \in 1..num_mats :
                    MatLoadBefore(k, brackets[k].mat_number) <= MatLoadBefore(k, m)
              /\ \A m \in 1..(brackets[k].mat_number - 1) :
                    MatLoadBefore(k, brackets[k].mat_number) < MatLoadBefore(k, m)
              /\ brackets[k].mat_number = ((k - 1) % num_mats) + 1
        /\ brackets = legacy_assign_mats(brackets, num_mats)
        /\ (Len(brackets) = 3 /\ num_mats = 3) =>
              [k \in 1..3 |-> brackets[k].mat_number] = <<1, 2, 3>>

\* three brackets have been put on three mats
C10_Witness ==
    /\ MatsAssigned
    /\ Len(brackets) = 3
    /\ num_mats = 3

---------------------------------------------------------------------------
(* Leftovers and absolute caps *)

\* five wrestlers of one grade from five schools, weights pairwise within
\* the baseline spread, to be grouped in fours
FiveCompatible ==
    /\ Len(wrestlers) = 5
    /\ bracket_size = 4
    /\ \A i, j \in DOMAIN wrestlers :
          /\ wrestlers[i].grade = wrestlers[j].grade
          /\ Abs(wrestlers[i].weight - wrestlers[j].weight) <= MAX_WEIGHT_STRICT
          /\ i # j => wrestlers[i].school # wrestlers[j].school

\* C11: five wrestlers compatible under the baseline, grouped in fours,
\* never come back as a bracket of five: exactly one bracket of 4 is
\* returned, and the fifth wrestler is either in a bracket of at least 3 or
\* in the unmatched list (here: always in the unmatched list, alone).
C11_FourPlusOne ==
    (Returned /\ FiveCompatible) =>
        /\ \A i \in DOMAIN brackets : Len(brackets[i].wrestlers) # 5
        /\ Cardinality({i \in DOMAIN brackets : Len(brackets[i].wrestlers) = 4}) = 1
        /\ \A k \in DOMAIN wrestlers :
              \/ wrestlers[k] \in Range(unmatched)
              \/ \E i \in DOMAIN brackets :
                    /\ wrestlers[k] \in Range(brackets[i].wrestlers)
                    /\ Len(brackets[i].wrestlers) >= 3
        /\ Len(brackets) = 1
        /\ Len(unmatched) = 1

\* match_all has returned on five compatible wrestlers and the one left
\* over is not the last of the roster
C11_Witness ==
    /\ Returned
    /\ FiveCompatible
    /\ unmatched # <<>>
    /\ unmatched[1] # wrestlers[5]

\* the group is within the emergency grade bound, the weight ceiling and
\* the school cap
WithinEmergency(group) ==
    /\ analyze(group).grade_spread <= 3
    /\ analyze(group).weight_spread <= 44
    /\ analyze(group).max_same_school <= 2

\* the wrestler w could join bracket i, which has room
CouldJoin(w, i) ==
    /\ Len(brackets[i].wrestlers) < bracket_size
    /\ WithinEmergency(Append(brackets[i].wrestlers, w))

\* the wrestler w could take the place of member k of bracket i, that
\* member moving to bracket j, which has room
CouldSwap(w, i, k, j) ==
    /\ i # j
    /\ WithinEmergency(Append(RemoveAt(brackets[i].wrestlers, k), w))
    /\ CouldJoin(brackets[i].wrestlers[k], j)

\* C12: when match_all returns, no unmatched wrestler could join a returned
\* bracket with room within the emergency tolerances, and no unmatched
\* wrestler could replace a member of a bracket while that member moves to
\* another bracket with room.
C12_NoPlacementLeft ==
    Returned =>
        \A u \in DOMAIN unmatched :
            /\ \A i \in DOMAIN brackets : ~CouldJoin(unmatched[u], i)
            /\ \A i, j \in DOMAIN brackets :
                  \A k \in DOMAIN brackets[i].wrestlers :
                      ~CouldSwap(unmatched[u], i, k, j)

\* C13: at every moment every bracket has at most 2 members of any one
\* school and a weight spread of at most 44, whichever phase built it and
\* whatever absorption or swap changed it.
C13_AbsoluteCaps ==
    \A i \in DOMAIN brackets :
        /\ analyze(brackets[i].wrestlers).max_same_school <= 2
        /\ analyze(brackets[i].wrestlers).weight_spread <= MAX_WEIGHT_RELAXED

\* an absorption or a swap has just left a bracket with two members of one
\* school and a weight spread above 25
C13_Witness ==
    /\ last \in {"absorb", "swap"}
    /\ \E i \in DOMAIN brackets :
          /\ analyze(brackets[i].wrestlers).max_same_school = 2
          /\ analyze(brackets[i].wrestlers).weight_spread > 25

---------------------------------------------------------------------------
(* Properties of _find_partners *)

\* _find_partners has returned
PartnersReturned == pc = "returned" /\ frame.fn = "_find_partners"

\* the group is within the tolerances of the call
WithinCallTolerance(group) ==
    /\ analyze(group).weight_spread <= frame.max_weight
    /\ analyze(group).grade_spread <= frame.max_grade
    /\ analyze(group).max_same_school <= frame.max_same_school

\* C14: _find_partners returns None or a list of exactly target_size
\* wrestlers that starts with the seed, has no wrestler twice, takes all its
\* members from the pool and is within the tolerances of the call; it
\* returns None whenever the growth stopped short of target_size, and only
\* then. The stepwise loop and the operator the phases use agree.
C14_FullGroupOrNone ==
    PartnersReturned =>
        /\ \/ ret = None
           \/ /\ Len(ret) = frame.target_size
              /\ ret[1] = frame.seed
              /\ \A i, j \in DOMAIN ret : i # j => ret[i] # ret[j]
              /\ Range(ret) \subseteq Range(frame.pool) \cup {frame.seed}
              /\ WithinCallTolerance(ret)
        /\ (Len(frame.group) < frame.target_size) <=> (ret = None)
        /\ ret = find_partners(frame.seed, frame.pool, frame.target_size,
                               frame.max_weight, frame.max_grade,
                               frame.max_same_school)

\* _find_partners has returned None after building a partial group of at
\* least two
C14_Witness ==
    /\ PartnersReturned
    /\ ret = None
    /\ Len(frame.group) >= 2

\* the group before the last partner was appended, and that partner
GroupBefore == SubSeq(frame.group, 1, Len(frame.group) - 1)
Chosen == frame.group[Len(frame.group)]

\* the position of wrestler c in the pool
PoolIndex(c) == CHOOSE i \in DOMAIN frame.pool : frame.pool[i] = c

\* the candidates of the last growth step admissible under the tolerances
AdmissibleBefore ==
    {c \in Range(frame.pool) :
        /\ c \notin Range(GroupBefore)
        /\ WithinCallTolerance(Append(GroupBefore, c))}

\* the key (school already represented, resulting grade spread, resulting
\* weight spread) of candidate c at the last growth step
SchoolRepresented(c) ==
    IF \E i \in DOMAIN GroupBefore : GroupBefore[i].school = c.school THEN 1 ELSE 0
GradeAfter(c) == analyze(Append(GroupBefore, c)).grade_spread
WeightAfter(c) == analyze(Append(GroupBefore, c)).weight_spread

\* key(a) < key(b) in lexicographic order
KeyLess(a, b) ==
    \/ SchoolRepresented(a) < SchoolRepresented(b)
    \/ SchoolRepresented(a) = SchoolRepresented(b) /\ GradeAfter(a) < GradeAfter(b)
    \/ /\ SchoolRepresented(a) = SchoolRepresented(b)
       /\ GradeAfter(a) = GradeAfter(b)
       /\ WeightAfter(a) < WeightAfter(b)

\* C15: the partner appended by a growth step of _find_partners is
\* admissible and minimal among the admissible candidates in lexicographic
\* order of (school already represented, resulting grade spread, resulting
\* weight spread); among candidates of equal key the first in pool order is
\* taken.
C15_LexicographicChoice ==
    (frame.fn = "_find_partners" /\ Len(frame.group) >= 2) =>
        /\ Chosen \in AdmissibleBefore
        /\ \A c \in AdmissibleBefore :
              /\ ~KeyLess(c, Chosen)
              /\ (~KeyLess(Chosen, c)) => PoolIndex(Chosen) <= PoolIndex(c)

\* a growth step took a wrestler of a new school although an admissible
\* wrestler of a represented school gave a smaller grade spread
C15_Witness ==
    /\ frame.fn = "_find_partners"
    /\ Len(frame.group) >= 2
    /\ \E c \in AdmissibleBefore :
          /\ SchoolRepresented(Chosen) < SchoolRepresented(c)
          /\ GradeAfter(c) < GradeAfter(Chosen)

---------------------------------------------------------------------------
(* Properties of _find_best_bracket_isolated and _calculate_isolation *)

BestReturned == pc = "returned" /\ frame.fn = "_find_best_bracket_isolated"

\* the isolation score of pool member w in the call, and the group
\* _find_partners builds from it
SeedScore(w) == calculate_isolation(w, frame.pool, frame.max_weight)
SeedGroup(w) ==
    find_partners(w, frame.pool, frame.target_size, frame.max_weight,
                  frame.max_grade, frame.max_same_school)

\* the position of pool member w in the pool
PositionIn(pool, w) == CHOOSE i \in DOMAIN pool : pool[i] = w

\* C16: _find_best_bracket_isolated tries the pool members as seeds in
\* descending order of isolation score (equal scores in pool order) and
\* returns the group of the first seed whose group is complete; it returns
\* None exactly when no pool member gives a group, and a returned group has
\* target_size members.
C16_MostIsolatedSeedFirst ==
    BestReturned =>
        LET sp == frame.sorted_pool
            groups == [k \in DOMAIN sp |-> SeedGroup(sp[k])]
        IN  /\ Len(sp) = Len(frame.pool)
            /\ Range(sp) = Range(frame.pool)
            /\ \A i, j \in DOMAIN sp : i < j =>
                  \/ SeedScore(sp[i]) > SeedScore(sp[j])
                  \/ /\ SeedScore(sp[i]) = SeedScore(sp[j])
                     /\ PositionIn(frame.pool, sp[i]) < PositionIn(frame.pool, sp[j])
            /\ (ret = None) <=> (\A k \in DOMAIN sp : groups[k] = None)
            /\ ret # None =>
                  /\ Len(ret) = frame.target_size
                  /\ ret = groups[frame.tried + 1]
                  /\ \A k \in 1..frame.tried : groups[k] = None
            /\ ret = find_best_bracket_isolated(frame.pool, frame.target_size,
                         frame.max_weight, frame.max_grade, frame.max_same_school)

\* a group returned from a seed that is not the first of the pool, after a
\* more isolated seed failed
C16_Witness ==
    /\ BestReturned
    /\ ret # None
    /\ frame.tried >= 1
    /\ ret[1] # frame.pool[1]
    /\ SeedScore(frame.sorted_pool[1]) > SeedScore(ret[1])

IsolationReturned == pc = "returned" /\ frame.fn = "_calculate_isolation"

\* the other pool members within one grade of the wrestler scored, those of
\* them within the weight tolerance, and the other members of its own grade
GradePeers ==
    {i \in DOMAIN frame.pool :
        /\ frame.pool[i].id # frame.wrestler.id
        /\ Abs(frame.pool[i].grade - frame.wrestler.grade) <= 1}
WeightPeers ==
    {i \in GradePeers :
        Abs(frame.pool[i].weight - frame.wrestler.weight) <= frame.max_weight}
SameGradePeers ==
    {i \in GradePeers : frame.pool[i].grade = frame.wrestler.grade}

\* twice the distance d of the wrestler's weight from the median weight of
\* its same-grade peers, 50 when it has none
Deviation2 ==
    IF SameGradePeers = {} THEN 2 * 50
    ELSE LET peers == SelectSeq(frame.pool, LAMBDA w :
                 w.id # frame.wrestler.id /\ w.grade = frame.wrestler.grade)
         IN  Abs(2 * frame.wrestler.weight
                 - median2([i \in DOMAIN peers |-> peers[i].weight]))

\* four times max(0, 10 - c) * 15 + 0.5 * d
PeerScore4(c) == 4 * (Max({0, 10 - c}) * 15) + Deviation2

\* the value returned is four times the score
Sentinel4 == 4 * 1000

\* C17 as stated: the score is not negative; it is the sentinel 1000
\* exactly when no other pool member is within one grade; otherwise it is
\* max(0, 10 - c) * 15 + 0.5 * d.
C17_SentinelExactlyWhenStranded ==
    IsolationReturned =>
        /\ ret >= 0
        /\ (ret = Sentinel4) <=> (GradePeers = {})
        /\ GradePeers # {} => ret = PeerScore4(Cardinality(WeightPeers))

\* C17: the score is not negative; it is the sentinel 1000 whenever no
\* other pool member is within one grade; otherwise it is
\* max(0, 10 - c) * 15 + 0.5 * d, which does not increase with c and which
\* differs from the sentinel unless d = 2000 - 30 * max(0, 10 - c).
C17_IsolationScore ==
    IsolationReturned =>
        /\ ret >= 0
        /\ GradePeers = {} => ret = Sentinel4
        /\ GradePeers # {} =>
              /\ ret = PeerScore4(Cardinality(WeightPeers))
              /\ \A c \in 0..Cardinality(WeightPeers) : PeerScore4(c) >= ret
              /\ (ret = Sentinel4) <=>
                    (Deviation2 = 2 * (2000 - 30 * Max({0, 10 - Cardinality(WeightPeers)})))

\* the score of a wrestler with more than ten peers within the weight
\* tolerance: the peer term is 0
C17_Witness ==
    /\ IsolationReturned
    /\ Cardinality(WeightPeers) > 10
    /\ ret = Deviation2
    /\ ret < Sentinel4

---------------------------------------------------------------------------
(* Phase 0 *)

\* the outlier list has just been built (lines 191-208)
OutliersListed == last = "begin"

\* the other roster members within `grade` grades and `weight` pounds of w
PeersWithin(w, weight, grade) ==
    {i \in DOMAIN wrestlers :
        /\ wrestlers[i].id # w.id
        /\ Abs(wrestlers[i].grade - w.grade) <= grade
        /\ Abs(wrestlers[i].weight - w.weight) <= weight}

\* the sets of bracket_size roster members that contain w
GroupsAround(w) ==
    {S \in SUBSET Range(wrestlers) : w \in S /\ Cardinality(S) = bracket_size}

\* the spreads of a set of wrestlers are within `weight` pounds and `grade`
\* grades
SpreadsWithin(S, weight, grade) ==
    \A a, b \in S : /\ Abs(a.weight - b.weight) <= weight
                    /\ Abs(a.grade - b.grade) <= grade

\* C18: the outliers of Phase 0 are exactly the wrestlers with fewer than
\* bracket_size - 1 other roster members within the baseline tolerance
\* (weight <= 10, grade <= 1) of them, and no set of bracket_size roster
\* members that contains an outlier is within the baseline weight and grade
\* tolerance.
C18_OutliersByBaseline ==
    OutliersListed =>
        /\ Range(outliers) =
              {w \in Range(wrestlers) :
                  Cardinality(PeersWithin(w, 10, 1)) < bracket_size - 1}
        /\ \A w \in Range(outliers) :
              \A S \in GroupsAround(w) : ~SpreadsWithin(S, 10, 1)

\* the isolation score Phase 0 sorts the outliers by (line 205)
OutlierScore(w) == calculate_isolation(w, wrestlers, 44)

\* the group _find_partners builds for the seed from the pool under the
\* k-th of the pairs (25,2), (25,3), (44,2), (44,3)
PairOrder == <<<<25, 2>>, <<25, 3>>, <<44, 2>>, <<44, 3>>>>
GroupUnderPair(seed, pool, k) ==
    find_partners(seed, pool, bracket_size, PairOrder[k][1], PairOrder[k][2], 2)

\* the pairs under which the seed gets a group from the pool
PairsThatSucceed(seed, pool) ==
    {k \in DOMAIN PairOrder : GroupUnderPair(seed, pool, k) # None}

\* a step of Phase 0 takes the first outlier of the list, which is at least
\* as isolated as every outlier after it; if that outlier is still in the
\* pool, the pool has bracket_size members and some pair succeeds, the step
\* appends one bracket, the group of the first pair that succeeds, and
\* takes its members from the pool; otherwise it changes neither the
\* brackets nor the pool
Phase0StepInOrder ==
    pc = "phase0" =>
        LET seed == Head(outliers)
            hits == PairsThatSucceed(seed, available)
        IN  /\ outliers' = Tail(outliers)
            /\ \A i \in DOMAIN outliers : OutlierScore(seed) >= OutlierScore(outliers[i])
            /\ IF /\ seed \in Range(available)
                  /\ Len(available) >= bracket_size
                  /\ hits # {}
               THEN LET k == Min(hits)
                        group == GroupUnderPair(seed, available, k)
                    IN  /\ Len(brackets') = Len(brackets) + 1
                        /\ SubSeq(brackets', 1, Len(brackets)) = brackets
                        /\ brackets'[Len(brackets')].wrestlers = group
                        /\ group[1] = seed
                        /\ analyze(group).weight_spread <= PairOrder[k][1]
                        /\ analyze(group).grade_spread <= PairOrder[k][2]
                        /\ Range(available') = Range(available) \ Range(group)
               ELSE /\ brackets' = brackets
                    /\ available' = available

\* C19: Phase 0 takes the outliers most isolated first; for an outlier
\* still in the pool it tries the pairs (25,2), (25,3), (44,2), (44,3) in
\* this order and creates the bracket of the first pair that gives a group
\* from the pool of that moment; it creates at most one bracket per outlier
\* and none for an outlier that an earlier Phase 0 bracket has taken.
C19_Phase0Order == [][Phase0StepInOrder]_vars

\* Phase 0 has created a bracket that only the pairs of 44 pounds allow, and
\* outliers are left
C19_Witness ==
    /\ pc = "phase0"
    /\ last = "create"
    /\ analyze(brackets[Len(brackets)].wrestlers).weight_spread > 25

---------------------------------------------------------------------------
(* Phases 1-6 *)

\* the stages of bracket creation after Phase 0 in their order, as
\* <<size, weight tolerance, grade tolerance>>: four at full size, four at
\* reduced size
StageTable ==
    <<<<bracket_size, 10, 2>>, <<bracket_size, 25, 2>>,
      <<bracket_size, 44, 2>>, <<bracket_size, 44, 3>>,
      <<bracket_size - 1, 10, 2>>, <<bracket_size - 1, 25, 2>>,
      <<bracket_size - 1, 44, 2>>, <<bracket_size - 1, 44, 3>>>>

\* the stage the run is in: 1-4 in Phases 1-4, 5-7 in Phase 5 (one per
\* weight), 8 in Phase 6, 0 before and 9 after
StageAt(at, weight_index) ==
    CASE at = "phase1" -> 1
      [] at = "phase2" -> 2
      [] at = "phase3" -> 3
      [] at = "phase4" -> 4
      [] at = "phase5" -> 4 + weight_index
      [] at = "phase6" -> 8
      [] at \in {"start", "phase0"} -> 0
      [] OTHER -> 9

\* a step of a stage creates one bracket of the stage's size from the group
\* _find_best_bracket_isolated returns for the pool under the stage's
\* tolerances and stays in the stage, or, when the pool is smaller than the
\* size or no group is returned, changes nothing and moves to the next
\* stage; the reduced stages are skipped when the target is 3
StageStepInOrder ==
    LET s == StageAt(pc, p5)
    IN  s \in 1..8 =>
          LET size == StageTable[s][1]
              group == IF Len(available) >= size
                       THEN find_best_bracket_isolated(available, size,
                                StageTable[s][2], StageTable[s][3], 2)
                       ELSE None
          IN  /\ s >= 5 => bracket_size > 3
              /\ IF group # None
                 THEN /\ brackets' = Append(brackets, brackets'[Len(brackets')])
                      /\ brackets'[Len(brackets')].wrestlers = group
                      /\ Len(group) = size
                      /\ analyze(group).weight_spread <= StageTable[s][2]
                      /\ analyze(group).grade_spread <= StageTable[s][3]
                      /\ Range(available') = Range(available) \ Range(group)
                      /\ StageAt(pc', p5') = s
                 ELSE /\ brackets' = brackets
                      /\ available' = available
                      /\ StageAt(pc', p5') =
                            IF s = 4 /\ bracket_size <= 3 THEN 9 ELSE s + 1

---------------------------------------------------------------------------
(* Phase 7 *)

\* the pairs <<position in the pool, position in the bracket list>> of a
\* remaining wrestler and a bracket below target size whose extended
\* membership has grade spread <= 3, at most 2 per school and weight
\* spread <= 44
AbsorbPairs ==
    {p \in (DOMAIN available) \X (DOMAIN brackets) :
        /\ Len(brackets[p[2]].wrestlers) < bracket_size
        /\ LET r == analyze(Append(brackets[p[2]].wrestlers, available[p[1]]))
           IN  r.grade_spread <= 3 /\ r.max_same_school <= 2 /\ r.weight_spread <= 44}

\* the score of line 397 for a pair
AbsorbScore(p) ==
    LET r == analyze(Append(brackets[p[2]].wrestlers, available[p[1]]))
    IN  (r.max_same_school - 1) * 1000 + r.grade_spread * 100
        + r.weight_spread + Len(brackets[p[2]].wrestlers) * 10

\* p comes before q in the scan "for wrestler: for bracket"
ScansBefore(p, q) == p[1] < q[1] \/ (p[1] = q[1] /\ p[2] < q[2])

\* a step of Phase 7 with an admissible pair commits the pair of minimal
\* score, the first such in scan order, and stays in Phase 7; a step with
\* none changes nothing and leaves Phase 7
Phase7StepBest ==
    pc = "phase7" =>
        IF AbsorbPairs = {}
        THEN /\ brackets' = brackets
             /\ available' = available
             /\ pc' # "phase7"
        ELSE \E p \in AbsorbPairs :
                /\ \A q \in AbsorbPairs :
                      /\ AbsorbScore(p) <= AbsorbScore(q)
                      /\ AbsorbScore(p) = AbsorbScore(q) /\ q # p => ScansBefore(p, q)
                /\ Len(brackets') = Len(brackets)
                /\ \A j \in DOMAIN brackets :
                      brackets'[j].wrestlers =
                          IF j = p[2]
                          THEN Append(brackets[j].wrestlers, available[p[1]])
                          ELSE brackets[j].wrestlers
                /\ available' = RemoveAt(available, p[1])
                /\ pc' = "phase7"

\* C21: each Phase 7 step commits the admissible (wrestler, bracket) pair
\* of minimal score, the first in scan order among equals; it never adds
\* to a bracket at target size; Phase 7 ends only when no admissible pair
\* is left.
C21_BestPairAbsorbed == [][Phase7StepBest]_vars

\* Phase 7 has just absorbed a wrestler into a bracket that is now at
\* target size, and wrestlers are still waiting
C21_Witness ==
    /\ pc = "phase7"
    /\ last = "absorb"
    /\ available # <<>>
    /\ \E i \in DOMAIN brackets : Len(brackets[i].wrestlers) = bracket_size

---------------------------------------------------------------------------
(* Phase 8 *)

\* the triples <<source bracket, position of the pulled member, destination
\* bracket>> that place wrestler w by a swap within the emergency
\* tolerances
SwapTriples(w) ==
    {t \in (DOMAIN brackets) \X (1..bracket_size + 1) \X (DOMAIN brackets) :
        /\ t[2] \in DOMAIN brackets[t[1]].wrestlers
        /\ CouldSwap(w, t[1], t[2], t[3])}

\* the two groups a triple results in and the sum of their weight spreads
SourceAfter(w, t) == Append(RemoveAt(brackets[t[1]].wrestlers, t[2]), w)
DestAfter(t) == Append(brackets[t[3]].wrestlers, brackets[t[1]].wrestlers[t[2]])
SpreadSum(w, t) ==
    analyze(SourceAfter(w, t)).weight_spread + analyze(DestAfter(t)).weight_spread

\* a step of Phase 8 that swaps the wrestler at the head of the queue in
\* executes a triple of minimal sum; the source keeps its size, the
\* destination grows by the pulled member up to the target at most, both
\* stay within the emergency tolerances and no other bracket changes
Phase8SwapBest ==
    (pc = "phase8" /\ last' = "swap") =>
        LET w == Head(queue)
        IN  \E t \in SwapTriples(w) :
               /\ \A u \in SwapTriples(w) : SpreadSum(w, t) <= SpreadSum(w, u)
               /\ Len(brackets') = Len(brackets)
               /\ brackets'[t[1]].wrestlers = SourceAfter(w, t)
               /\ Len(brackets'[t[1]].wrestlers) = Len(brackets[t[1]].wrestlers)
               /\ brackets'[t[3]].wrestlers = DestAfter(t)
               /\ Len(brackets'[t[3]].wrestlers) <= bracket_size
               /\ WithinEmergency(brackets'[t[1]].wrestlers)
               /\ WithinEmergency(brackets'[t[3]].wrestlers)
               /\ \A j \in DOMAIN brackets :
                     j \notin {t[1], t[3]} => brackets'[j] = brackets[j]

IsSwapSource(i) ==
    /\ brackets'[i].wrestlers # brackets[i].wrestlers
    /\ Len(brackets'[i].wrestlers) = Len(brackets[i].wrestlers)

SwapSourceFull ==
    (pc = "phase8" /\ last' = "swap") =>
        \A i \in DOMAIN brackets :
            IsSwapSource(i) => Len(brackets[i].wrestlers) = bracket_size

\* C23: for every target size, the bracket a Phase 8 swap pulls a member
\* from is at full target size when the member is pulled.
C23_SwapSourceFull == [][SwapSourceFull]_vars

---------------------------------------------------------------------------
(* Termination *)

\* the loops of Phases 1-6 and of Phase 7
InPhaseLoop ==
    pc \in {"phase1", "phase2", "phase3", "phase4", "phase5", "phase6", "phase7"}

\* an iteration of a phase loop takes at least one wrestler from the pool
\* or leaves the loop; Phase 0 and Phase 8 move on by one in their list
LoopsProgress ==
    /\ InPhaseLoop =>
          \/ Len(available') < Len(available) /\ pc' = pc /\ p5' = p5
          \/ (pc' # pc \/ p5' # p5) /\ available' = available
    /\ pc = "phase0" => outliers' = Tail(outliers) /\ Len(outliers) <= Len(wrestlers)
    /\ pc = "phase8" => queue' = Tail(queue) /\ Len(queue) <= Len(wrestlers)

\* a call that has not returned stands at a statement that can run: the
\* "for" loops of Phases 0 and 8 are entered with an element left only
HasStatement ==
    \/ pc = "done"
    \/ /\ pc \in {"start", "phase0", "phase8", "finish"} \cup
                  {"phase1", "phase2", "phase3", "phase4", "phase5", "phase6", "phase7"}
       /\ pc = "phase0" => outliers # <<>>
       /\ pc = "phase8" => queue # <<>>

\* C24: match_all terminates: every iteration of the loops of Phases 1-7
\* removes a wrestler from the pool or leaves the loop, Phases 0 and 8 go
\* once through a fixed list, and every run reaches the return.
C24_Terminates == [][LoopsProgress]_vars /\ []HasStatement /\ <>(pc = "done")

\* a run has returned with brackets, one of them short, and wrestlers it
\* could not place: Phases 7 and 8 ran and left their loops
C24_Witness ==
    /\ pc = "done"
    /\ Len(brackets) >= 2
    /\ unmatched # <<>>
    /\ \E i \in DOMAIN brackets : Len(brackets[i].wrestlers) < bracket_size

---------------------------------------------------------------------------
(* Manual edits *)

\* an event is stored
Stored == event # NoEvent

\* the slots of the stored event's brackets
EventSlots ==
    UNION {{<<i, j>> : j \in DOMAIN event.brackets[i].wrestlers} :
              i \in DOMAIN event.brackets}

\* the number of places of the stored event (a slot of a bracket, or a slot
\* of unmatched_wrestlers) that hold the wrestler w
EventPlaces(w) ==
    Cardinality({s \in EventSlots : event.brackets[s[1]].wrestlers[s[2]] = w})
    + Cardinality({j \in DOMAIN event.unmatched_wrestlers :
                      event.unmatched_wrestlers[j] = w})

\* C25: in an event created from a match_all result, after any sequence of
\* remove_wrestler, add_wrestler, delete_bracket and create_bracket
\* requests, every wrestler of the roster is in exactly one place (one
\* slot of one bracket, or one slot of the unmatched list), and the event
\* holds nobody else.
C25_EditsKeepPartition ==
    Stored =>
        /\ \A k \in DOMAIN wrestlers : EventPlaces(wrestlers[k]) = 1
        /\ Cardinality(EventSlots) + Len(event.unmatched_wrestlers) = Len(wrestlers)

\* the last bracket with members has just been deleted, after other
\* edits, and the whole roster of more than four is unmatched
C25_Witness ==
    /\ Stored
    /\ edits = MaxEdits
    /\ last = "delete_bracket"
    /\ response = "success"
    /\ Len(event.unmatched_wrestlers) = Len(wrestlers)
    /\ Len(wrestlers) > 4
\* the flags a re-analysis of the members gives; a bracket without members
\* exceeds no tolerance
analysed_flags(members) ==
    IF members = <<>> THEN <<>> ELSE violations(analyze(members))

\* C26: after any sequence of manual edits each bracket's stored
\* relaxation flags equal the flags a re-analysis of its current members
\* gives.
C26_FlagsFollowEdits ==
    Stored =>
        \A i \in DOMAIN event.brackets :
            bracket_from_dict(event.brackets[i]).relaxations
                = analysed_flags(event.brackets[i].wrestlers)
\* the bracket of the stored event a request names by id (0: none), and
\* whether a request's wrestler id is that of an unmatched wrestler
NamedBracket(b) == FirstIndex(event.brackets, b)
NamesUnmatched(w) == \E j \in DOMAIN event.unmatched_wrestlers :
                         event.unmatched_wrestlers[j].id = w
IsFull(b) ==
    /\ NamedBracket(b) # 0
    /\ Len(event.brackets[NamedBracket(b)].wrestlers) >= event.bracket_size

\* the answer of add_wrestler without a change of the stored event
Refused(b, w, answer) == add_wrestler(event, b, w) = Answer(event, answer)

NoBracketOverfull ==
    \A i \in DOMAIN event.brackets :
        Len(event.brackets[i].wrestlers) <= event.bracket_size

\* the statement as written: a request that names a full bracket is
\* answered "Bracket is full", whatever wrestler it names
C27_FullAlwaysAnswered ==
    Stored =>
        \A b \in RequestBracketIds, w \in RequestWrestlerIds :
            IsFull(b) => Refused(b, w, "bracket_full")

\* C27: add_wrestler answers "Bracket is full" and leaves the stored event
\* as it was when the named bracket has bracket_size members and the named
\* wrestler is unmatched; an unknown bracket id, and a wrestler id that is
\* not in the unmatched list (also when the bracket is full), are answered
\* not-found with the event as it was; no bracket of a stored event ever
\* has more than bracket_size members.
C27_AddWrestlerRefusals ==
    Stored =>
        /\ \A b \in RequestBracketIds, w \in RequestWrestlerIds :
              /\ NamedBracket(b) = 0 => Refused(b, w, "bracket_not_found")
              /\ (NamedBracket(b) # 0 /\ ~NamesUnmatched(w)) =>
                    Refused(b, w, "wrestler_not_found")
              /\ (IsFull(b) /\ NamesUnmatched(w)) => Refused(b, w, "bracket_full")
        /\ NoBracketOverfull

\* add_wrestler has just answered "Bracket is full": a bracket is at
\* bracket_size and a wrestler is unmatched
C27_Witness ==
    /\ Stored
    /\ last = "add_wrestler"
    /\ response = "bracket_full"
    /\ \E b \in RequestBracketIds, w \in RequestWrestlerIds :
          IsFull(b) /\ NamesUnmatched(w)

---------------------------------------------------------------------------
(* The round-robin schedule of a bracket *)

MatchupsReturned == pc = "returned" /\ frame.fn = "staggered_matchups"

\* the positions of the returned list that pair the members v and w
PairedAt(v, w) ==
    {p \in DOMAIN ret : {ret[p][1], ret[p][2]} = {v, w}}

\* C28: for a bracket of 0 to 5 members staggered_matchups returns every
\* unordered pair of distinct members exactly once, n*(n-1)/2 pairs (none
\* for n < 2), never a member against itself and never the bye slot.
C28_EveryPairOnce ==
    MatchupsReturned =>
        LET members == frame.wrestlers
            n == Len(members)
        IN  /\ Len(ret) = (n * (n - 1)) \div 2
            /\ \A p \in DOMAIN ret :
                  /\ ret[p][1] # ret[p][2]
                  /\ ret[p][1] \in Range(members)
                  /\ ret[p][2] \in Range(members)
            /\ \A i, j \in DOMAIN members :
                  i < j => Cardinality(PairedAt(members[i], members[j])) = 1

\* the schedule of a bracket of five, which has a bye slot, is returned
C28_Witness ==
    /\ MatchupsReturned
    /\ Len(frame.wrestlers) = 5
    /\ frame.round = 5
    /\ Len(ret) = 10

---------------------------------------------------------------------------
(* Bracket ids and letter labels *)

MaxLabelId == 702

\* distinct ids up to MaxLabelId have distinct labels; 0 is A, 25 is Z and
\* 26 is AA
LabelsDistinct ==
    /\ \A m, n \in 0..MaxLabelId : m # n => letter_label(m) # letter_label(n)
    /\ letter_label(0) = <<"A">>
    /\ letter_label(25) = <<"Z">>
    /\ letter_label(26) = <<"A", "A">>

\* C30: the brackets match_all returns have the ids 0, 1, ..., n-1 in list
\* order; after any sequence of manual edits the ids of the brackets of an
\* event are non-negative and pairwise distinct, and so are their letter
\* labels, letter_label mapping distinct ids to distinct labels.
C30_IdsAndLabelsDistinct ==
    /\ Returned => \A i \in DOMAIN brackets : brackets[i].id = i - 1
    /\ Stored =>
          \A i, j \in DOMAIN event.brackets :
              /\ event.brackets[i].id >= 0
              /\ i # j => /\ event.brackets[i].id # event.brackets[j].id
                          /\ letter_label(event.brackets[i].id)
                                # letter_label(event.brackets[j].id)
    /\ LabelsDistinct

\* a bracket has just been created after another was deleted: the ids of
\* the event are no longer 0, 1, ... in list order
C30_Witness ==
    /\ Stored
    /\ last = "create_bracket"
    /\ Len(event.brackets) >= 2
    /\ \E i \in DOMAIN event.brackets : event.brackets[i].id > i - 1
---------------------------------------------------------------------------
(* The wrestlers left unmatched *)

\* three unmatched wrestlers that could form a bracket under the widest
\* tolerances: grade spread at most 3, weight spread at most 44, at most 2
\* of a school
TripleLeft(i, j, k) ==
    /\ i < j /\ j < k
    /\ LET r == analyze(<<unmatched[i], unmatched[j], unmatched[k]>>)
       IN  r.grade_spread <= 3 /\ r.weight_spread <= 44 /\ r.max_same_school <= 2

\* C29: when match_all returns with target size 3 or 4, no three wrestlers
\* of the unmatched list form a group within the widest tolerances.
C29_NoTripleLeft ==
    (Returned /\ bracket_size \in {3, 4}) =>
        \A i, j, k \in DOMAIN unmatched : ~TripleLeft(i, j, k)

============================================================================
